---- MODULE Spec2Model ----
(***************************************************************************)
(* Valuation and aggregation engine of the portfolio dashboard             *)
(* (frontend/lib/portfolioData.ts): row parsing, currency rate table,      *)
(* coverage normalization and aggregateByTicker, driven by                 *)
(* loadPortfolioAggregation on one snapshot of rows.                       *)
(*                                                                         *)
(* Numbers.  A JavaScript number is modelled as an exact rational          *)
(* [n |-> numerator, d |-> denominator] in lowest terms with d > 0; the    *)
(* value null is NoNumber (d = 0).  Rounding of IEEE doubles is not        *)
(* modelled.                                                               *)
(* Strings.  Tickers and display names are sequences of one-character      *)
(* strings, so that toUpperCase, endsWith and the ticker regular           *)
(* expression are computed character by character; a null ticker or name   *)
(* is the empty sequence (readString never yields an empty string).        *)
(* Portfolio ids and names are character sequences too.  Currency codes,   *)
(* country codes and instrument types are TLA+ strings, null being         *)
(* NoString.                                                               *)
(* Maps (Record<string, number>, Map) are sequences of entries             *)
(* [k |-> key, v |-> value] in insertion order with unique keys.           *)
(* Evaluation.  A JavaScript expression is evaluated once and its value    *)
(* reused; With(x, Op) does the same here: it evaluates x once and applies *)
(* Op to the value.                                                        *)
(***************************************************************************)
EXTENDS Integers, Sequences, FiniteSets, TLC

----------------------------------------------------------------------------
(* Exact rational arithmetic standing for JavaScript numbers *)

\* const v = x; return Op(v)
With(x, Op(_)) == CHOOSE r \in {Op(v) : v \in {x}} : TRUE

NoNumber == [n |-> 0, d |-> 0]

Abs(i) == IF i < 0 THEN -i ELSE i

RECURSIVE GCD(_, _)
GCD(a, b) == IF b = 0 THEN a ELSE With(a % b, LAMBDA r : GCD(b, r))

Reduce(num, den, g) ==
  IF den < 0 THEN [n |-> (-num) \div g, d |-> (-den) \div g]
  ELSE [n |-> num \div g, d |-> den \div g]

Rat(num, den) ==
  With(num, LAMBDA x : With(den, LAMBDA y :
    With(GCD(Abs(x), Abs(y)), LAMBDA g : Reduce(x, y, g))))

Num(i) == [n |-> i, d |-> 1]

IsNull(x) == x.d = 0

RAdd(a, b) ==
  With(a, LAMBDA x : With(b, LAMBDA y : Rat(x.n * y.d + y.n * x.d, x.d * y.d)))
RSub(a, b) ==
  With(a, LAMBDA x : With(b, LAMBDA y : Rat(x.n * y.d - y.n * x.d, x.d * y.d)))
RMul(a, b) ==
  With(a, LAMBDA x : With(b, LAMBDA y : Rat(x.n * y.n, x.d * y.d)))
RDiv(a, b) ==
  With(a, LAMBDA x : With(b, LAMBDA y : Rat(x.n * y.d, x.d * y.n)))
RLt(a, b) == With(a, LAMBDA x : With(b, LAMBDA y : x.n * y.d < y.n * x.d))
RLe(a, b) == With(a, LAMBDA x : With(b, LAMBDA y : x.n * y.d <= y.n * x.d))
RMax(a, b) == With(a, LAMBDA x : With(b, LAMBDA y : IF RLt(x, y) THEN y ELSE x))

\* Math.abs
RAbs(a) == With(a, LAMBDA x : [n |-> Abs(x.n), d |-> x.d])

\* a ?? b on nullable numbers
Coalesce(a, b) == With(a, LAMBDA x : IF IsNull(x) THEN b ELSE x)

----------------------------------------------------------------------------
(* Strings *)

NoString == "<null>"
NoText == << >>

LowerLetters == <<"a","b","c","d","e","f","g","h","i","j","k","l","m",
                  "n","o","p","q","r","s","t","u","v","w","x","y","z">>
UpperLetters == <<"A","B","C","D","E","F","G","H","I","J","K","L","M",
                  "N","O","P","Q","R","S","T","U","V","W","X","Y","Z">>

UpperChar(c) ==
  IF \E i \in 1..26 : LowerLetters[i] = c
  THEN UpperLetters[CHOOSE i \in 1..26 : LowerLetters[i] = c]
  ELSE c

\* String.prototype.toUpperCase on a character sequence
ToUpperText(t) == [i \in 1..Len(t) |-> UpperChar(t[i])]

\* String.prototype.toUpperCase on the codes (currency, country) of the model
ToUpperCode(s) ==
  CASE s = "usd" -> "USD"
    [] s = "eur" -> "EUR"
    [] s = "us" -> "US"
    [] s = "jp" -> "JP"
    [] s = "fr" -> "FR"
    [] OTHER -> s

EndsWith(t, suffix) ==
  /\ Len(suffix) <= Len(t)
  /\ \A i \in 1..Len(suffix) : t[Len(t) - Len(suffix) + i] = suffix[i]

----------------------------------------------------------------------------
(* Maps in insertion order: sequences of entries [k |-> key, v |-> value] *)

Keys(m) == With(m, LAMBDA s : {s[i].k : i \in 1..Len(s)})
Has(m, key) ==
  With(m, LAMBDA s : With(key, LAMBDA c : \E i \in 1..Len(s) : s[i].k = c))
Get(m, key) ==
  With(m, LAMBDA s : With(key, LAMBDA c :
    s[CHOOSE i \in 1..Len(s) : s[i].k = c].v))

\* obj[key] = value, Map.set(key, value): overwrite in place, or append
Put(m, key, value) ==
  With(m, LAMBDA s : With([k |-> key, v |-> value], LAMBDA entry :
    IF Has(s, entry.k)
    THEN [i \in 1..Len(s) |-> IF s[i].k = entry.k THEN entry ELSE s[i]]
    ELSE Append(s, entry)))

\* (obj[key] ?? 0) on a map of numbers
GetOrZero(m, key) ==
  With(m, LAMBDA s : With(key, LAMBDA c : IF Has(s, c) THEN Get(s, c) ELSE Num(0)))

\* values.reduce((sum, value) => sum + value, 0)
SumValues(m) ==
  With(m, LAMBDA s :
    LET sum[i \in 0..Len(s)] == IF i = 0 THEN Num(0) ELSE RAdd(sum[i - 1], s[i].v)
    IN  sum[Len(s)])

\* Record<string, number> | null
NoCoverage == [null |-> TRUE, e |-> << >>]
Coverage(entries) == [null |-> FALSE, e |-> entries]

----------------------------------------------------------------------------
(* Row normalizer *)

\* readString on a character sequence (a value that is null or blank is the
\* empty sequence; leading and trailing spaces are trimmed)
RECURSIVE TrimLeft(_)
TrimLeft(t) == IF t # << >> /\ Head(t) = " " THEN TrimLeft(Tail(t)) ELSE t

RECURSIVE TrimRight(_)
TrimRight(t) ==
  IF t # << >> /\ t[Len(t)] = " " THEN TrimRight(SubSeq(t, 1, Len(t) - 1)) ELSE t

readText(value) == TrimRight(TrimLeft(value))

\* readString on a code; the codes of the model carry no surrounding blanks
readString(value) == IF value = NoString \/ value = "" THEN NoString ELSE value

\* A raw value read as a number is a number, null, or a string, the string
\* being the record [text |-> characters].
Text(chars) == [text |-> chars]
IsText(value) == "text" \in DOMAIN value

Digits == <<"0","1","2","3","4","5","6","7","8","9">>
IsDigit(c) == \E d \in 1..10 : Digits[d] = c
DigitValue(c) == (CHOOSE d \in 1..10 : Digits[d] = c) - 1

\* the digits a string starts with
LeadingDigits(t) ==
  SubSeq(t, 1, CHOOSE k \in 0..Len(t) :
                 /\ \A j \in 1..k : IsDigit(t[j])
                 /\ (k = Len(t) \/ ~IsDigit(t[k + 1])))

DigitsValue(digits) ==
  LET value[i \in 0..Len(digits)] ==
        IF i = 0 THEN 0 ELSE value[i - 1] * 10 + DigitValue(digits[i])
  IN  value[Len(digits)]

PowerOfTen(n) ==
  LET power[i \in 0..n] == IF i = 0 THEN 1 ELSE power[i - 1] * 10
  IN  power[n]

\* value.replace(',', '.'): the first comma only
replaceComma(t) ==
  IF \E i \in 1..Len(t) : t[i] = ","
  THEN [t EXCEPT ![CHOOSE i \in 1..Len(t) :
                     t[i] = "," /\ \A j \in 1..(i - 1) : t[j] # ","] = "."]
  ELSE t

\* Number.parseFloat on a decimal literal: leading blanks, a sign, digits, a
\* point and digits; what follows is ignored; NaN (null here) without a digit.
\* Exponents and the literal Infinity, which readNumber rejects, are left out.
parseUnsigned(t) ==
  With(LeadingDigits(t), LAMBDA whole :
    With(SubSeq(t, Len(whole) + 1, Len(t)), LAMBDA rest :
      With(IF rest # << >> /\ Head(rest) = "." THEN LeadingDigits(Tail(rest)) ELSE << >>,
           LAMBDA fraction :
             IF whole = << >> /\ fraction = << >> THEN NoNumber
             ELSE Rat(DigitsValue(whole) * PowerOfTen(Len(fraction)) + DigitsValue(fraction),
                      PowerOfTen(Len(fraction))))))

parseFloat(t) ==
  With(TrimLeft(t), LAMBDA trimmed :
    IF trimmed # << >> /\ Head(trimmed) = "-"
    THEN With(parseUnsigned(Tail(trimmed)), LAMBDA parsed :
           IF IsNull(parsed) THEN NoNumber ELSE RSub(Num(0), parsed))
    ELSE IF trimmed # << >> /\ Head(trimmed) = "+" THEN parseUnsigned(Tail(trimmed))
    ELSE parseUnsigned(trimmed))

readNumber(value) ==
  With(value, LAMBDA raw :
    IF IsText(raw)
    THEN IF readText(raw.text) = NoText THEN NoNumber
         ELSE parseFloat(replaceComma(raw.text))
    ELSE IF IsNull(raw) THEN NoNumber ELSE raw)

\* readBoolean on a boolean, null, or a string: "true" and "false" in any case
NoBoolean == NoString
readBoolean(value) ==
  CASE value \in {"true", "TRUE", "True"} -> "true"
    [] value \in {"false", "FALSE", "False"} -> "false"
    [] OTHER -> NoBoolean

\* readGeoCoverage on a native map | null
readGeoEntries(source) ==
  LET output[i \in 0..Len(source)] ==
        IF i = 0 THEN << >>
        ELSE With(readNumber(source[i].v), LAMBDA parsed :
               IF IsNull(parsed) \/ parsed.n = 0 \/ RLe(parsed, Num(0))
               THEN output[i - 1]
               ELSE Put(output[i - 1], ToUpperCode(source[i].k), parsed))
  IN  output[Len(source)]

readGeoCoverage(value) ==
  With(value, LAMBDA c :
    IF c.null THEN NoCoverage
    ELSE With(readGeoEntries(c.e), LAMBDA output :
           IF Len(output) > 0 THEN Coverage(output) ELSE NoCoverage))

----------------------------------------------------------------------------
(* Ticker conventions *)

TICKER_SUFFIX_TO_COUNTRY == <<
  [k |-> <<".","P","A">>, v |-> "FR"], [k |-> <<".","D","E">>, v |-> "DE"],
  [k |-> <<".","U","K">>, v |-> "GB"], [k |-> <<".","L">>, v |-> "GB"],
  [k |-> <<".","J","P">>, v |-> "JP"], [k |-> <<".","T">>, v |-> "JP"],
  [k |-> <<".","S","W">>, v |-> "CH"], [k |-> <<".","V","X">>, v |-> "CH"],
  [k |-> <<".","A","S">>, v |-> "NL"], [k |-> <<".","M","I">>, v |-> "IT"],
  [k |-> <<".","M","C">>, v |-> "ES"], [k |-> <<".","T","O">>, v |-> "CA"],
  [k |-> <<".","A","X">>, v |-> "AU"], [k |-> <<".","H","K">>, v |-> "CN"],
  [k |-> <<".","S","S">>, v |-> "CN"], [k |-> <<".","S","Z">>, v |-> "CN"],
  [k |-> <<".","K","S">>, v |-> "KR"], [k |-> <<".","T","W">>, v |-> "TW"] >>

\* the first entry of TICKER_SUFFIX_TO_COUNTRY whose suffix ends upperTicker
suffixCountry(upperTicker) ==
  With({i \in 1..Len(TICKER_SUFFIX_TO_COUNTRY) :
          EndsWith(upperTicker, TICKER_SUFFIX_TO_COUNTRY[i].k)},
       LAMBDA hits :
         IF hits = {} THEN NoString
         ELSE TICKER_SUFFIX_TO_COUNTRY[CHOOSE i \in hits : \A j \in hits : i <= j].v)

getCountryFromTicker(ticker) ==
  IF ticker = << >> THEN NoString
  ELSE With(ToUpperText(ticker), LAMBDA upperTicker :
         IF suffixCountry(upperTicker) # NoString THEN suffixCountry(upperTicker)
         ELSE IF upperTicker[1] = "^" \/ \E i \in 1..Len(upperTicker) : upperTicker[i] = "="
         THEN NoString
         ELSE IF /\ Len(upperTicker) \in 1..5
                 /\ \A i \in 1..Len(upperTicker) :
                      \E j \in 1..26 : UpperLetters[j] = upperTicker[i]
         THEN "US"
         ELSE NoString)

----------------------------------------------------------------------------
(* Coverage normalization *)

FractionSumLimit == Rat(3, 2)

\* coverage ?? (fallbackCountry ? { [fallbackCountry]: 100 } : null)
rawCoverage(coverage, ticker) ==
  With(coverage, LAMBDA c :
    IF ~c.null THEN c
    ELSE With(getCountryFromTicker(ticker), LAMBDA fallbackCountry :
           IF fallbackCountry # NoString
           THEN Coverage(<< [k |-> fallbackCountry, v |-> Num(100)] >>)
           ELSE NoCoverage))

IsPositive(entry) == RLt(Num(0), entry.v)

\* asPercent ? value * 100 : (value / total) * 100
percentage(value, total) ==
  IF RLe(total, FractionSumLimit) THEN RMul(value, Num(100))
  ELSE RMul(RDiv(value, total), Num(100))

normalizeCoveragePercentages(coverage, ticker) ==
  With(rawCoverage(coverage, ticker), LAMBDA raw :
    IF raw.null THEN << >>
    ELSE With(SelectSeq(raw.e, IsPositive), LAMBDA positiveEntries :
           IF Len(positiveEntries) = 0 THEN << >>
           ELSE With(SumValues(positiveEntries), LAMBDA total :
                  LET normalized[i \in 0..Len(positiveEntries)] ==
                        IF i = 0 THEN << >>
                        ELSE Put(normalized[i - 1], ToUpperCode(positiveEntries[i].k),
                                 percentage(positiveEntries[i].v, total))
                  IN  normalized[Len(positiveEntries)])))

----------------------------------------------------------------------------
(* Currency rate table *)

\* variant: the currency id is stored as written
toCurrencyRateMapCaseSensitive(rows) ==
  LET map[i \in 0..Len(rows)] ==
        IF i = 0 THEN << [k |-> "EUR", v |-> Num(1)] >>
        ELSE IF ~IsNull(rows[i].rate_to_eur)
             THEN Put(map[i - 1], rows[i].id, rows[i].rate_to_eur)
             ELSE map[i - 1]
  IN  map[Len(rows)]

toCurrencyRateMap(rows) ==
  LET map[i \in 0..Len(rows)] ==
        IF i = 0 THEN << [k |-> "EUR", v |-> Num(1)] >>
        ELSE IF ~IsNull(rows[i].rate_to_eur)
             THEN Put(map[i - 1], ToUpperCode(rows[i].id), rows[i].rate_to_eur)
             ELSE map[i - 1]
  IN  map[Len(rows)]

\* variant: the code is looked up as written
getRateToEurAsWritten(currency, rateMap) ==
  With(currency, LAMBDA c :
    IF c = NoString \/ c = "" THEN Num(1)
    ELSE IF Has(rateMap, c) THEN Get(rateMap, c) ELSE Num(1))

getRateToEur(currency, rateMap) ==
  With(currency, LAMBDA c :
    IF c = NoString \/ c = "" THEN Num(1)
    ELSE With(ToUpperCode(c), LAMBDA upper :
           IF Has(rateMap, upper) THEN Get(rateMap, upper) ELSE Num(1)))

----------------------------------------------------------------------------
(* Position rows *)

DEFAULT_PORTFOLIO_ID == <<"d","e","f","a","u","l","t">>

\* parsePositionRow returns null for a row without ticker
NoPosition ==
  [portfolio_id |-> NoText, ticker |-> NoText, name |-> NoText,
   instrument_type |-> NoString, currency |-> NoString,
   quantity_buy |-> NoNumber, quantity_current |-> NoNumber, pru |-> NoNumber,
   target_weight_pct |-> NoNumber, geo_coverage |-> NoCoverage]

\* The columns average_cost, avg_cost and target_weight are in no selector of
\* fetchPositions: they read as undefined, so readNumber gives null for them.
parsePositionRow(raw) ==
  With(ToUpperText(readText(raw.ticker)), LAMBDA ticker :
    IF ticker = NoText THEN NoPosition
    ELSE With(Coalesce(readNumber(raw.quantity_current), readNumber(raw.quantity)),
              LAMBDA quantityCurrent :
           [portfolio_id |->
              IF readText(raw.portfolio_id) = NoText THEN DEFAULT_PORTFOLIO_ID
              ELSE readText(raw.portfolio_id),
            ticker |-> ticker,
            name |-> readText(raw.name),
            instrument_type |->
              IF readString(raw.instrument_type) = NoString THEN readString(raw.type)
              ELSE readString(raw.instrument_type),
            currency |-> readString(raw.currency),
            quantity_buy |-> Coalesce(readNumber(raw.quantity_buy), quantityCurrent),
            quantity_current |-> quantityCurrent,
            pru |-> Coalesce(readNumber(raw.pru), Coalesce(NoNumber, NoNumber)),
            target_weight_pct |->
              Coalesce(readNumber(raw.target_weight_pct),
                       Coalesce(readNumber(raw.target_pct), NoNumber)),
            geo_coverage |-> readGeoCoverage(raw.geo_coverage)]))

IsPosition(position) == position # NoPosition

\* rows.map(parsePositionRow).filter(position => position !== null)
fetchPositions(rows) ==
  SelectSeq([i \in 1..Len(rows) |-> parsePositionRow(rows[i])], IsPosition)

HasTicker(row) == row.ticker # NoText

fallbackPosition(row) ==
  With(Coalesce(row.quantity, Num(1)), LAMBDA quantityCurrent :
    [portfolio_id |->
       IF row.portfolio_id = NoText THEN DEFAULT_PORTFOLIO_ID ELSE row.portfolio_id,
     ticker |-> ToUpperText(row.ticker),
     name |-> row.name,
     instrument_type |-> row.type,
     currency |-> row.currency,
     quantity_buy |-> Coalesce(row.quantity_buy, quantityCurrent),
     quantity_current |-> quantityCurrent,
     pru |-> row.pru,
     target_weight_pct |-> row.target_weight_pct,
     geo_coverage |-> row.geo_coverage])

buildFallbackPositions(rows) ==
  With(SelectSeq(rows, HasTicker), LAMBDA withTicker :
    [i \in 1..Len(withTicker) |-> fallbackPosition(withTicker[i])])

----------------------------------------------------------------------------
(* Market rows *)

\* marketByTicker.get(ticker) ?? null: every field of the absent row is null,
\* so that market?.field ?? x reads as Coalesce(market.field, x)
NoMarket ==
  [ticker |-> NoText, name |-> NoText, last_price |-> NoNumber,
   currency |-> NoString, type |-> NoString, geo_coverage |-> NoCoverage,
   asset_class |-> NoString, quantity |-> NoNumber, quantity_buy |-> NoNumber,
   pru |-> NoNumber, target_weight_pct |-> NoNumber, portfolio_id |-> NoText,
   perf_day_eur |-> NoNumber, perf_day_local |-> NoNumber,
   perf_week_local |-> NoNumber, perf_month_local |-> NoNumber,
   perf_ytd_eur |-> NoNumber, rsi_14 |-> NoNumber, macd_line |-> NoNumber,
   macd_signal |-> NoNumber, momentum_20 |-> NoNumber,
   trend_state |-> NoString, trend_changed |-> NoString]

TrendStates == {"BULLISH", "BEARISH", "NEUTRAL", "UNKNOWN"}

\* parseMarketWatchRow, for the fields the aggregation reads
parseMarketWatchRow(raw) ==
  [ticker |-> readText(raw.ticker),
   name |-> readText(raw.name),
   last_price |-> readNumber(raw.last_price),
   currency |-> readString(raw.currency),
   type |-> readString(raw.type),
   geo_coverage |-> readGeoCoverage(raw.geo_coverage),
   asset_class |-> readString(raw.asset_class),
   quantity |-> readNumber(raw.quantity),
   quantity_buy |-> readNumber(raw.quantity_buy),
   pru |-> readNumber(raw.pru),
   target_weight_pct |-> readNumber(raw.target_weight_pct),
   portfolio_id |-> readText(raw.portfolio_id),
   perf_day_eur |-> readNumber(raw.perf_day_eur),
   perf_day_local |-> readNumber(raw.perf_day_local),
   perf_week_local |-> readNumber(raw.perf_week_local),
   perf_month_local |-> readNumber(raw.perf_month_local),
   perf_ytd_eur |-> readNumber(raw.perf_ytd_eur),
   rsi_14 |-> readNumber(raw.rsi_14),
   macd_line |-> readNumber(raw.macd_line),
   macd_signal |-> readNumber(raw.macd_signal),
   momentum_20 |-> readNumber(raw.momentum_20),
   trend_state |->
     IF readString(raw.trend_state) \in TrendStates THEN readString(raw.trend_state)
     ELSE NoString,
   trend_changed |-> readBoolean(raw.trend_changed)]

\* rows.map(parseMarketWatchRow)
fetchMarketWatchRows(rows) == [i \in 1..Len(rows) |-> parseMarketWatchRow(rows[i])]

\* marketRows.forEach(row => marketByTicker.set(row.ticker?.toUpperCase(), row))
toMarketByTicker(rows) ==
  LET map[i \in 0..Len(rows)] ==
        IF i = 0 THEN << >>
        ELSE IF ToUpperText(rows[i].ticker) # NoText
             THEN Put(map[i - 1], ToUpperText(rows[i].ticker), rows[i])
             ELSE map[i - 1]
  IN  map[Len(rows)]

\* variant: the stored trend_state is taken without a look at the indicators
resolveTrendStateAsStored(row) ==
  IF row.trend_state = "BULLISH" THEN "BULLISH"
  ELSE IF row.trend_state = "BEARISH" THEN "BEARISH"
  ELSE "NEUTRAL"

resolveTrendState(row) ==
  LET hasIndicators ==
        /\ ~IsNull(row.macd_line)
        /\ ~IsNull(row.macd_signal)
        /\ ~IsNull(row.rsi_14)
        /\ ~IsNull(row.momentum_20)
  IN  IF ~hasIndicators THEN "UNKNOWN"
      ELSE IF row.trend_state = "BULLISH" THEN "BULLISH"
      ELSE IF row.trend_state = "BEARISH" THEN "BEARISH"
      ELSE "NEUTRAL"

normalizeAssetType(value) ==
  IF value = NoString THEN "Stock"
  ELSE CASE value \in {"ETF", "etf"} -> "ETF"
         [] value \in {"CRYPTO", "crypto"} -> "CRYPTO"
         [] value \in {"CASH", "Cash", "cash"} -> "Cash"
         [] value \in {"FOREX", "Forex", "forex"} -> "Forex"
         [] value \in {"CURRENCY", "Currency", "currency"} -> "Currency"
         [] OTHER -> "Stock"

----------------------------------------------------------------------------
(* Position aggregator *)

\* grouped: Map<ticker, PortfolioPositionRow[]> in first-seen order
groupByTicker(rows) ==
  LET grouped[i \in 0..Len(rows)] ==
        IF i = 0 THEN << >>
        ELSE With(grouped[i - 1], LAMBDA g :
               With(ToUpperText(rows[i].ticker), LAMBDA key :
                 Put(g, key, Append(IF Has(g, key) THEN Get(g, key) ELSE << >>, rows[i]))))
  IN  grouped[Len(rows)]

\* Array.from(new Set(rows.map(position => position.portfolio_id)))
distinctPortfolioIds(rows) ==
  LET seen[i \in 0..Len(rows)] ==
        IF i = 0 THEN << >>
        ELSE With(seen[i - 1], LAMBDA ids :
               IF \E j \in 1..Len(ids) : ids[j] = rows[i].portfolio_id THEN ids
               ELSE Append(ids, rows[i].portfolio_id))
  IN  seen[Len(rows)]

positionQuantityCurrent(position) ==
  Coalesce(position.quantity_current, Coalesce(position.quantity_buy, Num(0)))

positionQuantityBuy(position) ==
  Coalesce(position.quantity_buy, Coalesce(position.quantity_current, Num(0)))

\* position.currency ?? market?.currency ?? 'EUR'
positionCurrency(position, market) ==
  IF position.currency # NoString THEN position.currency
  ELSE IF market.currency # NoString THEN market.currency
  ELSE "EUR"

\* variant: the value is left in the quote currency
valueEurWithoutFx(quantityCurrent, price, fxRate) == RMul(quantityCurrent, price)

valueEur(quantityCurrent, price, fxRate) == RMul(RMul(quantityCurrent, price), fxRate)

\* variant: a position without value weighs its quantity, which may be zero
weightingValueWithoutFloor(value, quantityCurrent) ==
  IF RLt(Num(0), value) THEN value ELSE quantityCurrent

weightingValue(value, quantityCurrent) ==
  IF RLt(Num(0), value) THEN value ELSE RMax(quantityCurrent, Num(1))

\* position.pru * quantityBuy
weightedPruTerm(position, quantityBuy) == RMul(position.pru, quantityBuy)

\* variant: the cost is left in the position's currency
investedValueTermWithoutFx(position, quantityBuy, fxRate) ==
  RMul(position.pru, quantityBuy)

\* position.pru * quantityBuy * fxRate
investedValueTerm(position, quantityBuy, fxRate) ==
  RMul(RMul(position.pru, quantityBuy), fxRate)

\* Object.entries(coverage).forEach(...) into geoExposureByCountry
addCountryExposure(geoExposureByCountry, coverage, value) ==
  With(coverage, LAMBDA c : With(value, LAMBDA x :
    LET exposure[i \in 0..Len(c)] ==
          IF i = 0 THEN geoExposureByCountry
          ELSE With(exposure[i - 1], LAMBDA byCountry :
                 Put(byCountry, c[i].k,
                     RAdd(GetOrZero(byCountry, c[i].k), RMul(x, RDiv(c[i].v, Num(100))))))
    IN  exposure[Len(c)]))

ZeroTotals ==
  [totalQuantityCurrent |-> Num(0), totalQuantityBuy |-> Num(0),
   weightedPruNumerator |-> Num(0), marketValueEur |-> Num(0),
   investedValueEur |-> Num(0), investedSamples |-> 0,
   targetWeightedNumerator |-> Num(0), targetWeightedDenominator |-> Num(0),
   geoExposureByCountry |-> << >>]

\* body of tickerPositions.forEach
addPosition(t, position, market, ticker, rateMap) ==
  LET quantityCurrent == positionQuantityCurrent(position)
      quantityBuy == positionQuantityBuy(position)
      price == Coalesce(market.last_price, Num(0))
      hasCost == ~IsNull(position.pru) /\ RLt(Num(0), quantityBuy)
      hasTarget == ~IsNull(position.target_weight_pct)
  IN  With(getRateToEur(positionCurrency(position, market), rateMap), LAMBDA fxRate :
      With(valueEur(quantityCurrent, price, fxRate), LAMBDA value :
      With(weightingValue(value, quantityCurrent), LAMBDA weighting :
        [totalQuantityCurrent |-> RAdd(t.totalQuantityCurrent, quantityCurrent),
         totalQuantityBuy |-> RAdd(t.totalQuantityBuy, quantityBuy),
         marketValueEur |-> RAdd(t.marketValueEur, value),
         weightedPruNumerator |->
           IF hasCost
           THEN RAdd(t.weightedPruNumerator, weightedPruTerm(position, quantityBuy))
           ELSE t.weightedPruNumerator,
         investedValueEur |->
           IF hasCost
           THEN RAdd(t.investedValueEur, investedValueTerm(position, quantityBuy, fxRate))
           ELSE t.investedValueEur,
         investedSamples |->
           IF hasCost THEN t.investedSamples + 1 ELSE t.investedSamples,
         targetWeightedNumerator |->
           IF hasTarget
           THEN RAdd(t.targetWeightedNumerator,
                     RMul(position.target_weight_pct, weighting))
           ELSE t.targetWeightedNumerator,
         targetWeightedDenominator |->
           IF hasTarget THEN RAdd(t.targetWeightedDenominator, weighting)
           ELSE t.targetWeightedDenominator,
         geoExposureByCountry |->
           addCountryExposure(
             t.geoExposureByCountry,
             normalizeCoveragePercentages(position.geo_coverage, ticker), value)])))

sumPositions(tickerPositions, market, ticker, rateMap) ==
  LET totals[i \in 0..Len(tickerPositions)] ==
        IF i = 0 THEN ZeroTotals
        ELSE With(totals[i - 1], LAMBDA t :
               addPosition(t, tickerPositions[i], market, ticker, rateMap))
  IN  totals[Len(tickerPositions)]

resolveConstituents(geoExposureByCountry, market, ticker) ==
  With(SumValues(geoExposureByCountry), LAMBDA geoExposureTotal :
    IF RLt(Num(0), geoExposureTotal)
    THEN [i \in 1..Len(geoExposureByCountry) |->
            [k |-> geoExposureByCountry[i].k,
             v |-> RMul(RDiv(geoExposureByCountry[i].v, geoExposureTotal), Num(100))]]
    ELSE normalizeCoveragePercentages(market.geo_coverage, ticker))

avgCost(t) ==
  IF RLt(Num(0), t.totalQuantityBuy)
  THEN RDiv(t.weightedPruNumerator, t.totalQuantityBuy) ELSE NoNumber

targetWeight(t) ==
  IF RLt(Num(0), t.targetWeightedDenominator)
  THEN RDiv(t.targetWeightedNumerator, t.targetWeightedDenominator) ELSE NoNumber

investedValue(t) == IF t.investedSamples > 0 THEN t.investedValueEur ELSE NoNumber

pnlEur(marketValueEur, invested) ==
  IF ~IsNull(invested) THEN RSub(marketValueEur, invested) ELSE NoNumber

\* variant: the ratio, not the gain
pnlPctAsRatio(marketValueEur, invested) ==
  IF ~IsNull(invested) /\ RLt(Num(0), invested)
  THEN RMul(RDiv(marketValueEur, invested), Num(100))
  ELSE NoNumber

pnlPct(marketValueEur, invested) ==
  IF ~IsNull(invested) /\ RLt(Num(0), invested)
  THEN RMul(RSub(RDiv(marketValueEur, invested), Num(1)), Num(100))
  ELSE NoNumber

marketName(market, tickerPositions, ticker) ==
  IF market.name # NoText THEN market.name
  ELSE IF tickerPositions[1].name # NoText THEN tickerPositions[1].name
  ELSE ticker

\* technical.trend_state and technical.trend_changed of the Asset
technicalOf(market) ==
  With(IF market # NoMarket THEN resolveTrendState(market) ELSE "UNKNOWN",
       LAMBDA trendState :
         [rsi_14 |-> market.rsi_14, macd_line |-> market.macd_line,
          macd_signal |-> market.macd_signal, momentum_20 |-> market.momentum_20,
          trend_state |-> trendState,
          trend_changed |->
            IF trendState = "UNKNOWN" THEN FALSE ELSE market.trend_changed = "true"])

percentOf(x) == RMul(Coalesce(x, Num(0)), Num(100))

performanceOf(market) ==
  [day |-> [value |-> percentOf(market.perf_day_eur),
            currencyImpact |->
              RMul(RSub(Coalesce(market.perf_day_eur, Num(0)),
                        Coalesce(market.perf_day_local, Num(0))), Num(100))],
   week |-> [value |-> percentOf(market.perf_week_local), currencyImpact |-> Num(0)],
   month |-> [value |-> percentOf(market.perf_month_local), currencyImpact |-> Num(0)],
   ytd |-> [value |-> percentOf(market.perf_ytd_eur), currencyImpact |-> Num(0)]]

\* assets.push({...}).  The pass-through fields id, data_status, last_update,
\* pe_ratio, market_cap, ma200_*, trend_slope, volatility_30d and macd_hist are
\* copied from the market row and left out.
toAsset(t, tickerPositions, ticker, market, portfolioIds, portfolioNameById) ==
  With(investedValue(t), LAMBDA invested :
    [name |-> marketName(market, tickerPositions, ticker),
     ticker |-> ticker,
     price |-> Coalesce(market.last_price, Num(0)),
     currency |-> IF market.currency # NoString THEN market.currency
                  ELSE IF tickerPositions[1].currency # NoString
                       THEN tickerPositions[1].currency
                  ELSE "EUR",
     type |-> normalizeAssetType(
                IF market.type # NoString THEN market.type
                ELSE tickerPositions[1].instrument_type),
     constituents |-> resolveConstituents(t.geoExposureByCountry, market, ticker),
     asset_class |-> market.asset_class,
     quantity |-> t.totalQuantityCurrent,
     quantity_buy |-> IF t.totalQuantityBuy.n = 0 THEN NoNumber ELSE t.totalQuantityBuy,
     quantity_current |-> t.totalQuantityCurrent,
     pru |-> avgCost(t),
     target_weight_pct |-> targetWeight(t),
     market_value_eur |-> t.marketValueEur,
     invested_value_eur |-> invested,
     pnl_eur |-> pnlEur(t.marketValueEur, invested),
     pnl_pct |-> pnlPct(t.marketValueEur, invested),
     portfolio_ids |-> portfolioIds,
     portfolio_names |->
       [i \in 1..Len(portfolioIds) |->
          IF Has(portfolioNameById, portfolioIds[i])
          THEN Get(portfolioNameById, portfolioIds[i])
          ELSE portfolioIds[i]],
     technical |-> technicalOf(market),
     performance |-> performanceOf(market)])

\* body of grouped.forEach: one Asset per group
buildAsset(tickerPositions, ticker, marketByTicker, portfolioNameById, rateMap) ==
  With(IF Has(marketByTicker, ticker) THEN Get(marketByTicker, ticker) ELSE NoMarket,
       LAMBDA market :
  With(distinctPortfolioIds(tickerPositions), LAMBDA portfolioIds :
  With(sumPositions(tickerPositions, market, ticker, rateMap), LAMBDA t :
    toAsset(t, tickerPositions, ticker, market, portfolioIds, portfolioNameById))))

----------------------------------------------------------------------------
(* Ordering by name: localeCompare(other, 'en', {sensitivity: 'base'}) *)

\* Primary collation weight of a character: blank, punctuation and symbols
\* before digits before letters; a letter and its capital weigh the same.
CollationOrder == <<" ", ".", "^", "=", "0", "1", "2", "3", "4", "5", "6", "7", "8", "9">>

collationWeight(c) ==
  LET u == UpperChar(c)
  IN  IF \E i \in 1..26 : UpperLetters[i] = u
      THEN Len(CollationOrder) + (CHOOSE i \in 1..26 : UpperLetters[i] = u)
      ELSE IF \E i \in 1..Len(CollationOrder) : CollationOrder[i] = u
      THEN CHOOSE i \in 1..Len(CollationOrder) : CollationOrder[i] = u
      ELSE 0

RECURSIVE localeCompare(_, _)
localeCompare(left, right) ==
  IF left = << >> /\ right = << >> THEN 0
  ELSE IF left = << >> THEN -1
  ELSE IF right = << >> THEN 1
  ELSE IF collationWeight(Head(left)) < collationWeight(Head(right)) THEN -1
  ELSE IF collationWeight(Head(left)) > collationWeight(Head(right)) THEN 1
  ELSE localeCompare(Tail(left), Tail(right))

\* Array.prototype.sort is stable: an element goes after every element that
\* does not compare greater than it
insertByName(sorted, item) ==
  With({i \in 1..Len(sorted) : localeCompare(sorted[i].name, item.name) > 0},
       LAMBDA greater :
         IF greater = {} THEN Append(sorted, item)
         ELSE With(CHOOSE i \in greater : \A j \in greater : i <= j, LAMBDA at :
                SubSeq(sorted, 1, at - 1) \o << item >> \o SubSeq(sorted, at, Len(sorted))))

sortByName(items) ==
  With(items, LAMBDA list :
    LET sorted[i \in 0..Len(list)] ==
          IF i = 0 THEN << >>
          ELSE With(sorted[i - 1], LAMBDA before : insertByName(before, list[i]))
    IN  sorted[Len(list)])

\* variant: a group without market record is skipped
aggregateByTickerPricedOnly(rows, marketByTicker, portfolioNameById, rateMap) ==
  With(SelectSeq(groupByTicker(rows), LAMBDA group : Has(marketByTicker, group.k)),
       LAMBDA grouped :
         sortByName([i \in 1..Len(grouped) |->
                      buildAsset(grouped[i].v, grouped[i].k, marketByTicker,
                                 portfolioNameById, rateMap)]))

aggregateByTicker(rows, marketByTicker, portfolioNameById, rateMap) ==
  With(groupByTicker(rows), LAMBDA grouped :
    sortByName([i \in 1..Len(grouped) |->
                 buildAsset(grouped[i].v, grouped[i].k, marketByTicker,
                            portfolioNameById, rateMap)]))

----------------------------------------------------------------------------
(* loadPortfolioAggregation *)

ALL == <<"A","L","L">>
MainPortfolioName == <<"M","a","i","n"," ","P","o","r","t","f","o","l","i","o">>
PortfolioPrefix == <<"P","o","r","t","f","o","l","i","o"," ">>

\* `Portfolio ${id.slice(0, 6)}`
shortPortfolioName(id) ==
  PortfolioPrefix \o SubSeq(id, 1, IF Len(id) < 6 THEN Len(id) ELSE 6)

IsPortfolio(portfolio) == portfolio.id # NoText

parsePortfolioRow(raw) ==
  With(readText(raw.id), LAMBDA id :
    [id |-> id,
     name |-> IF readText(raw.name) # NoText THEN readText(raw.name)
              ELSE shortPortfolioName(id)])

\* rows.map(parsePortfolioRow).filter(portfolio => portfolio !== null)
fetchPortfolios(rows) ==
  SelectSeq([i \in 1..Len(rows) |-> parsePortfolioRow(rows[i])], IsPortfolio)

\* positions.length > 0 ? persistedPositions : buildFallbackPositions(marketRows)
resolvePositions(persistedPositions, rows) ==
  IF Len(persistedPositions) > 0 THEN persistedPositions ELSE buildFallbackPositions(rows)

resolvePositionPortfolioIds(rows) ==
  With(distinctPortfolioIds(rows), LAMBDA ids :
    IF Len(ids) = 0 THEN << DEFAULT_PORTFOLIO_ID >> ELSE ids)

resolvePortfolioNames(portfolios, positionPortfolioIds) ==
  LET fromRows[i \in 0..Len(portfolios)] ==
        IF i = 0 THEN << >>
        ELSE Put(fromRows[i - 1], portfolios[i].id, portfolios[i].name)
      filled[i \in 0..Len(positionPortfolioIds)] ==
        IF i = 0
        THEN IF positionPortfolioIds = << DEFAULT_PORTFOLIO_ID >>
             THEN Put(fromRows[Len(portfolios)], DEFAULT_PORTFOLIO_ID, MainPortfolioName)
             ELSE fromRows[Len(portfolios)]
        ELSE With(filled[i - 1], LAMBDA names :
               IF Has(names, positionPortfolioIds[i]) THEN names
               ELSE Put(names, positionPortfolioIds[i],
                        IF positionPortfolioIds[i] = DEFAULT_PORTFOLIO_ID
                        THEN MainPortfolioName
                        ELSE shortPortfolioName(positionPortfolioIds[i])))
  IN  filled[Len(positionPortfolioIds)]

resolvePortfolioOptions(positionPortfolioIds, portfolioNameById) ==
  sortByName([i \in 1..Len(positionPortfolioIds) |->
                [id |-> positionPortfolioIds[i],
                 name |-> Get(portfolioNameById, positionPortfolioIds[i])]])

\* variant: every portfolio's key holds the aggregate of all positions
aggregatePortfoliosUnfiltered(rows, options, marketByTicker, portfolioNameById, rateMap) ==
  LET byPortfolio[i \in 0..Len(options)] ==
        IF i = 0
        THEN << [k |-> ALL,
                 v |-> aggregateByTicker(rows, marketByTicker, portfolioNameById, rateMap)] >>
        ELSE Put(byPortfolio[i - 1], options[i].id,
                 aggregateByTicker(rows, marketByTicker, portfolioNameById, rateMap))
  IN  byPortfolio[Len(options)]

\* assetsByPortfolio.ALL = ...; portfolioOptions.forEach(...)
aggregatePortfolios(rows, options, marketByTicker, portfolioNameById, rateMap) ==
  LET byPortfolio[i \in 0..Len(options)] ==
        IF i = 0
        THEN << [k |-> ALL,
                 v |-> aggregateByTicker(rows, marketByTicker, portfolioNameById, rateMap)] >>
        ELSE LET InPortfolio(position) == position.portfolio_id = options[i].id
             IN  Put(byPortfolio[i - 1], options[i].id,
                     aggregateByTicker(SelectSeq(rows, InPortfolio), marketByTicker,
                                       portfolioNameById, rateMap))
  IN  byPortfolio[Len(options)]

----------------------------------------------------------------------------
(* The snapshots the model draws from the row store *)

MaxPositions == 2
MaxMarketRows == 1
MaxCurrencyRows == 2

AAPL == <<"A","A","P","L">>
aapl == <<"a","a","p","l">>
MCPA == <<"M","C",".","P","A">>
IndexX == <<"^","X">>
PortfolioA == <<"A">>
PortfolioB == <<"B">>

PositionRow(portfolio, ticker, quantityBuy, quantityCurrent, pru, currency, target) ==
  [portfolio_id |-> portfolio, ticker |-> ticker, name |-> NoText,
   instrument_type |-> NoString, type |-> NoString, currency |-> currency,
   quantity_buy |-> quantityBuy, quantity_current |-> quantityCurrent,
   quantity |-> NoNumber, pru |-> pru, target_weight_pct |-> target,
   target_pct |-> NoNumber, geo_coverage |-> NoCoverage]

\* rows of portfolio_positions that differ in quantities, cost, currency and target
ValuationRows ==
  { PositionRow(p, AAPL, Num(10), Num(10), Num(150), NoString, NoNumber) : p \in {PortfolioA} }
  \cup { PositionRow(p, AAPL, Num(5), Num(5), Num(170), NoString, NoNumber) : p \in {PortfolioB} }
  \cup { PositionRow(p, AAPL, Num(5), Num(5), NoNumber, "usd", Num(10)) : p \in {PortfolioB} }
  \cup { PositionRow(PortfolioA, AAPL, Num(5), Num(0), Num(170), "EUR", Num(30)),
         PositionRow(PortfolioB, aapl, Num(5), Num(0), Num(170), "EUR", Num(30)) }
  \cup { PositionRow(p, t, Num(10), NoNumber, Num(0), "GBP", Num(30)) :
           p \in {PortfolioA}, t \in {MCPA} }
  \cup { PositionRow(NoText, MCPA, NoNumber, Num(3), Num(40), NoString, Num(10)),
         PositionRow(PortfolioB, NoText, Num(1), Num(1), Num(1), NoString, NoNumber),
         [PositionRow(PortfolioB, MCPA, NoNumber, NoNumber, NoNumber, "USD", NoNumber)
            EXCEPT !.quantity = Num(10), !.target_pct = Num(30)] }

MarketRow(ticker, name, price, currency) ==
  [NoMarket EXCEPT !.ticker = ticker, !.name = name, !.last_price = price,
                   !.currency = currency]

Apple == <<"A","p","p","l","e">>
Lvmh == <<"L","V","M","H">>

ValuationMarketRows ==
  { MarketRow(AAPL, Apple, Num(180), "USD"),
    MarketRow(aapl, NoText, Num(-180), NoString),
    MarketRow(AAPL, Apple, NoNumber, "USD"),
    MarketRow(MCPA, Lvmh, Num(50), "EUR") }

\* coverage maps as stored: fractions, percentages, a share below the whole,
\* lower-case and non-positive entries, the default '{}' of the column
FractionsCoverage ==
  Coverage(<< [k |-> "US", v |-> Rat(7, 10)], [k |-> "JP", v |-> Rat(3, 10)] >>)
HalfCoverage == Coverage(<< [k |-> "US", v |-> Rat(1, 2)] >>)
PercentCoverage ==
  Coverage(<< [k |-> "us", v |-> Num(60)], [k |-> "FR", v |-> Num(40)],
              [k |-> "JP", v |-> Num(-10)] >>)
PartialPercentCoverage ==
  Coverage(<< [k |-> "FR", v |-> Num(50)], [k |-> "US", v |-> Num(30)] >>)
EmptyCoverage == Coverage(<< >>)
FranceCoverage == Coverage(<< [k |-> "FR", v |-> Num(100)] >>)

GeoRow(portfolio, ticker, quantityCurrent, coverage) ==
  [PositionRow(portfolio, ticker, Num(10), quantityCurrent, Num(150), NoString, NoNumber)
     EXCEPT !.geo_coverage = coverage]

\* rows of portfolio_positions that differ in ticker, value and coverage
GeoRows ==
  { GeoRow(PortfolioA, AAPL, Num(10), c) :
      c \in {NoCoverage, FractionsCoverage, HalfCoverage, PercentCoverage,
             PartialPercentCoverage, EmptyCoverage} }
  \cup { GeoRow(PortfolioB, t, Num(5), c) :
           t \in {AAPL, IndexX}, c \in {NoCoverage, FractionsCoverage, PercentCoverage} }
  \cup { GeoRow(PortfolioA, MCPA, Num(0), NoCoverage) }

GeoMarketRow(ticker, price, coverage) ==
  [MarketRow(ticker, NoText, price, "USD") EXCEPT !.geo_coverage = coverage]

GeoMarketRows ==
  { GeoMarketRow(AAPL, Num(180), NoCoverage),
    GeoMarketRow(AAPL, Num(180), FranceCoverage),
    GeoMarketRow(AAPL, NoNumber, FractionsCoverage),
    GeoMarketRow(IndexX, Num(50), PartialPercentCoverage),
    GeoMarketRow(MCPA, Num(50), HalfCoverage) }

CurrencyRows ==
  << [id |-> "usd", rate_to_eur |-> Rat(9, 10)], [id |-> "CHF", rate_to_eur |-> NoNumber] >>

\* raw rows as the row store returns them: numbers written as strings with a
\* decimal comma, strings that are no number, blank strings, absent columns
RawPositionRows ==
  { PositionRow(NoText, AAPL, NoNumber, Text(<<"1",",","5">>), Text(<<"a","b","c">>),
                NoString, NoNumber),
    [PositionRow(PortfolioA, <<" ","a","a","p","l"," ">>, Num(10), NoNumber, Num(150),
                 "", Text(<<" ">>))
       EXCEPT !.type = "ETF", !.quantity = Text(<<"7">>)],
    PositionRow(PortfolioB, <<" ">>, Num(1), Num(1), Num(1), "EUR", NoNumber),
    PositionRow(PortfolioB, MCPA, Num(5), Num(5), Num(40), "EUR", Num(10)) }

RawMarketRows ==
  { [MarketRow(AAPL, <<" ","A","p","p","l","e"," ">>, Text(<<"1","8","0",",","5">>), "USD")
       EXCEPT !.trend_state = "bullish", !.trend_changed = "TRUE",
              !.rsi_14 = Text(<<"x">>), !.macd_line = Text(<<"-",".","5">>)],
    [MarketRow(MCPA, Lvmh, Num(50), "")
       EXCEPT !.trend_state = "BEARISH", !.trend_changed = "yes",
              !.geo_coverage = PercentCoverage],
    MarketRow(<<" ">>, NoText, NoNumber, NoString) }

RawPortfolioRows ==
  { [id |-> PortfolioA, name |-> <<"A","l","p","h","a">>],
    [id |-> PortfolioB, name |-> <<" ">>],
    [id |-> <<" ">>, name |-> <<"B","e","t","a">>] }

\* rows of currencies: the base currency listed itself, one code listed in
\* both cases, a zero rate, a rate that is not finite (read as null)
RateRows ==
  { [id |-> "usd", rate_to_eur |-> Rat(9, 10)],
    [id |-> "USD", rate_to_eur |-> Rat(4, 5)],
    [id |-> "EUR", rate_to_eur |-> Rat(11, 10)],
    [id |-> "eur", rate_to_eur |-> NoNumber],
    [id |-> "GBP", rate_to_eur |-> Num(0)],
    [id |-> "CHF", rate_to_eur |-> NoNumber] }

\* the currency codes a position or a market row may carry
CurrencyCodes == {"EUR", "eur", "USD", "usd", "GBP", "CHF", "JPY", "", NoString}

PortfolioRows == << [id |-> PortfolioA, name |-> <<"A","l","p","h","a">>] >>

SeqsUpTo(S, n) == UNION {[1..k -> S] : k \in 0..n}

\* portfolio_positions: unique (portfolio_id, ticker)
UniqueKeys(rows) ==
  \A i, j \in 1..Len(rows) :
    (rows[i].portfolio_id = rows[j].portfolio_id /\ rows[i].ticker = rows[j].ticker)
      => i = j

----------------------------------------------------------------------------
(* State machine: one snapshot in the row store, loaded by a page.  The    *)
(* rows are what the four fetches of loadPortfolioAggregation return; the  *)
(* locals positions, portfolioNameById, rates and marketByTicker of the    *)
(* function are kept as variables next to the bundle it returns.           *)

----------------------------------------------------------------------------
(* frontend/lib/technicalIndicators.ts *)

RsiBullThreshold == 60
RsiBearThreshold == 40

\* variant: the bullish RSI comparison strict
technicalIndicators_resolveTrendStateStrict(macdLine, macdSignal, rsi14, momentum20, rsiBullThreshold) ==
  IF ~IsNull(macdLine) /\ ~IsNull(macdSignal) /\ ~IsNull(rsi14) /\ ~IsNull(momentum20)
  THEN IF RLt(macdSignal, macdLine) /\ RLt(Num(rsiBullThreshold), rsi14)
          /\ RLt(Num(0), momentum20)
       THEN "BULLISH"
       ELSE IF RLt(macdLine, macdSignal) /\ RLt(rsi14, Num(RsiBearThreshold))
               /\ RLt(momentum20, Num(0))
            THEN "BEARISH"
            ELSE "NEUTRAL"
  ELSE "NEUTRAL"

technicalIndicators_resolveTrendState(macdLine, macdSignal, rsi14, momentum20, rsiBullThreshold) ==
  IF ~IsNull(macdLine) /\ ~IsNull(macdSignal) /\ ~IsNull(rsi14) /\ ~IsNull(momentum20)
  THEN IF RLt(macdSignal, macdLine) /\ RLe(Num(rsiBullThreshold), rsi14)
          /\ RLt(Num(0), momentum20)
       THEN "BULLISH"
       ELSE IF RLt(macdLine, macdSignal) /\ RLt(rsi14, Num(RsiBearThreshold))
               /\ RLt(momentum20, Num(0))
            THEN "BEARISH"
            ELSE "NEUTRAL"
  ELSE "NEUTRAL"

MacdShortPeriod == 12
MacdLongPeriod == 26
MacdSignalPeriod == 9
RsiPeriod == 14
MomentumPeriod == 20

\* the running ema after each value; positions are one more than the indexes
\* of the source
emaSeries(series, multiplier) ==
  With(series, LAMBDA values :
    LET ema[i \in 0..Len(values)] ==
          IF i = 0 THEN NoNumber
          ELSE With(ema[i - 1], LAMBDA before :
                 IF IsNull(values[i]) THEN before
                 ELSE IF IsNull(before) THEN values[i]
                 ELSE RAdd(RMul(RSub(values[i], before), multiplier), before))
    IN  [i \in 1..Len(values) |-> ema[i]])

\* variant: the value is exposed one index later
calculateEMAFromPeriod(series, period) ==
  With(series, LAMBDA values :
    IF period <= 0 THEN [i \in 1..Len(values) |-> NoNumber]
    ELSE With(emaSeries(values, Rat(2, period + 1)), LAMBDA ema :
           [i \in 1..Len(values) |->
              IF IsNull(values[i]) THEN NoNumber
              ELSE IF i - 1 >= period THEN ema[i] ELSE NoNumber]))

calculateEMA(series, period) ==
  With(series, LAMBDA values :
    IF period <= 0 THEN [i \in 1..Len(values) |-> NoNumber]
    ELSE With(emaSeries(values, Rat(2, period + 1)), LAMBDA ema :
           [i \in 1..Len(values) |->
              IF IsNull(values[i]) THEN NoNumber
              ELSE IF i - 1 >= period - 1 THEN ema[i] ELSE NoNumber]))

\* variant: the raw signal is exposed
calculateMACDRawSignal(series, shortPeriod, longPeriod, signalPeriod) ==
  With(series, LAMBDA values :
  With(calculateEMA(values, shortPeriod), LAMBDA emaShort :
  With(calculateEMA(values, longPeriod), LAMBDA emaLong :
  With([i \in 1..Len(values) |->
          IF IsNull(emaShort[i]) \/ IsNull(emaLong[i]) THEN NoNumber
          ELSE RSub(emaShort[i], emaLong[i])], LAMBDA macdLine :
  With(calculateEMA([i \in 1..Len(values) |-> Coalesce(macdLine[i], Num(0))],
                    signalPeriod), LAMBDA signalLine :
    [macdLine |-> macdLine,
     signalLine |-> signalLine,
     histogram |-> [i \in 1..Len(values) |->
                      IF IsNull(macdLine[i]) \/ IsNull(signalLine[i]) THEN NoNumber
                      ELSE RSub(macdLine[i], signalLine[i])]])))))

calculateMACD(series, shortPeriod, longPeriod, signalPeriod) ==
  With(series, LAMBDA values :
  With(calculateEMA(values, shortPeriod), LAMBDA emaShort :
  With(calculateEMA(values, longPeriod), LAMBDA emaLong :
  With([i \in 1..Len(values) |->
          IF IsNull(emaShort[i]) \/ IsNull(emaLong[i]) THEN NoNumber
          ELSE RSub(emaShort[i], emaLong[i])], LAMBDA macdLine :
  With(calculateEMA([i \in 1..Len(values) |-> Coalesce(macdLine[i], Num(0))],
                    signalPeriod), LAMBDA rawSignal :
  With([i \in 1..Len(values) |->
          IF i - 1 < longPeriod + signalPeriod - 2 THEN NoNumber ELSE rawSignal[i]],
       LAMBDA signalLine :
    [macdLine |-> macdLine,
     signalLine |-> signalLine,
     histogram |-> [i \in 1..Len(values) |->
                      IF IsNull(macdLine[i]) \/ IsNull(signalLine[i]) THEN NoNumber
                      ELSE RSub(macdLine[i], signalLine[i])]]))))))

\* gains[i] and losses[i], i the index of the source
gainAt(values, i) ==
  With(RSub(values[i + 1], values[i]), LAMBDA change :
    IF RLt(Num(0), change) THEN change ELSE Num(0))

lossAt(values, i) ==
  With(RSub(values[i + 1], values[i]), LAMBDA change :
    IF RLt(change, Num(0)) THEN RAbs(change) ELSE Num(0))

\* variant: a zero average loss read as no strength
rsiOfZeroLoss(avgGain, avgLoss) ==
  IF avgLoss = Num(0) THEN Num(0)
  ELSE RSub(Num(100), RDiv(Num(100), RAdd(Num(1), RDiv(avgGain, avgLoss))))

\* 100 - 100 / (1 + rs), rs infinite when avgLoss is 0
rsiOf(avgGain, avgLoss) ==
  IF avgLoss = Num(0) THEN Num(100)
  ELSE RSub(Num(100), RDiv(Num(100), RAdd(Num(1), RDiv(avgGain, avgLoss))))

\* avgGain and avgLoss after index i of the source, i >= period
rsiAverages(series, period) ==
  With(series, LAMBDA values :
  LET sums[i \in 0..period] ==
        IF i = 0 \/ i >= Len(values)
        THEN (IF i = 0 THEN [gain |-> Num(0), loss |-> Num(0)] ELSE sums[i - 1])
        ELSE With(sums[i - 1], LAMBDA before :
               [gain |-> RAdd(before.gain, gainAt(values, i)),
                loss |-> RAdd(before.loss, lossAt(values, i))])
      avg[i \in period..(Len(values) - 1)] ==
        IF i = period
        THEN With(sums[period], LAMBDA total :
               [gain |-> RDiv(total.gain, Num(period)),
                loss |-> RDiv(total.loss, Num(period))])
        ELSE With(avg[i - 1], LAMBDA before :
               [gain |-> RDiv(RAdd(RMul(before.gain, Num(period - 1)), gainAt(values, i)),
                              Num(period)),
                loss |-> RDiv(RAdd(RMul(before.loss, Num(period - 1)), lossAt(values, i)),
                              Num(period))])
  IN  [i \in period..(Len(values) - 1) |-> avg[i]])

calculateRSI(series, period) ==
  With(series, LAMBDA values :
    IF values = << >> THEN << >>
    ELSE IF period <= 1 THEN [i \in 1..Len(values) |-> NoNumber]
    ELSE With(rsiAverages(values, period), LAMBDA avg :
           [i \in 1..Len(values) |->
              IF i - 1 >= period THEN rsiOf(avg[i - 1].gain, avg[i - 1].loss)
              ELSE NoNumber]))

calculateMomentum(series, period) ==
  With(series, LAMBDA values :
    [i \in 1..Len(values) |->
       IF i - 1 < period THEN NoNumber
       ELSE With(values[i - period], LAMBDA previous :
              IF IsNull(previous) \/ previous = Num(0) THEN NoNumber
              ELSE RMul(RSub(RDiv(values[i], previous), Num(1)), Num(100)))])

\* no call of resolveTrendState made
NoIndicators == [macdLine |-> NoNumber, macdSignal |-> NoNumber, rsi14 |-> NoNumber,
                 momentum20 |-> NoNumber, none |-> TRUE]

----------------------------------------------------------------------------
(* Geographic performance *)

COUNTRY_NAMES ==
  << [k |-> "US", v |-> "United States"], [k |-> "FR", v |-> "France"],
     [k |-> "JP", v |-> "Japan"] >>

COUNTRY_COORDS ==
  << [k |-> "US", v |-> <<37, -95>>], [k |-> "FR", v |-> <<46, 2>>],
     [k |-> "JP", v |-> <<36, 138>>] >>

Timeframes == {"day", "month", "ytd"}

\* asset.market_value_eur ?? ((asset.quantity_current ?? asset.quantity ?? 0) * asset.price)
exposureOf(asset) ==
  With(asset, LAMBDA a :
    IF ~IsNull(a.market_value_eur) THEN a.market_value_eur
    ELSE RMul(Coalesce(a.quantity_current, Coalesce(a.quantity, Num(0))), a.price))

newCountry(code) ==
  [code |-> code,
   name |-> IF Has(COUNTRY_NAMES, code) THEN Get(COUNTRY_NAMES, code) ELSE code,
   coordinates |-> IF Has(COUNTRY_COORDS, code) THEN Get(COUNTRY_COORDS, code)
                   ELSE <<0, 0>>,
   totalExposure |-> Num(0),
   weightedDay |-> Num(0),
   weightedMonth |-> Num(0),
   weightedYtd |-> Num(0),
   tickers |-> {}]

\* variant: the performances weighted by the whole exposure of the holding
addCountryEntryByHolding(countryMap, asset, exposure, coverageEntry) ==
  With(ToUpperCode(coverageEntry.k), LAMBDA code :
  With(RMul(exposure, RDiv(coverageEntry.v, Num(100))), LAMBDA countryExposure :
  With(IF Has(countryMap, code) THEN Get(countryMap, code) ELSE newCountry(code),
       LAMBDA entry :
    Put(countryMap, code,
        [entry EXCEPT
           !.totalExposure = RAdd(@, countryExposure),
           !.weightedDay = RAdd(@, RMul(asset.performance.day.value, exposure)),
           !.weightedMonth = RAdd(@, RMul(asset.performance.month.value, exposure)),
           !.weightedYtd = RAdd(@, RMul(asset.performance.ytd.value, exposure)),
           !.tickers = @ \cup {asset.ticker}]))))

\* body of coverageEntries.forEach
addCountryEntry(countryMap, asset, exposure, coverageEntry) ==
  With(ToUpperCode(coverageEntry.k), LAMBDA code :
  With(RMul(exposure, RDiv(coverageEntry.v, Num(100))), LAMBDA countryExposure :
  With(IF Has(countryMap, code) THEN Get(countryMap, code) ELSE newCountry(code),
       LAMBDA entry :
    Put(countryMap, code,
        [entry EXCEPT
           !.totalExposure = RAdd(@, countryExposure),
           !.weightedDay = RAdd(@, RMul(asset.performance.day.value, countryExposure)),
           !.weightedMonth = RAdd(@, RMul(asset.performance.month.value, countryExposure)),
           !.weightedYtd = RAdd(@, RMul(asset.performance.ytd.value, countryExposure)),
           !.tickers = @ \cup {asset.ticker}]))))

\* body of assets.forEach
addAssetExposure(countryMap, asset) ==
  With(exposureOf(asset), LAMBDA exposure :
    IF ~RLt(Num(0), exposure) THEN countryMap
    ELSE With(normalizeCoveragePercentages(Coverage(asset.constituents), asset.ticker),
              LAMBDA coverageEntries :
           LET acc[i \in 0..Len(coverageEntries)] ==
                 IF i = 0 THEN countryMap
                 ELSE With(acc[i - 1], LAMBDA before :
                        addCountryEntry(before, asset, exposure, coverageEntries[i]))
           IN  acc[Len(coverageEntries)]))

accumulateCountries(countryMap, list) ==
  With(list, LAMBDA assets :
    LET acc[i \in 0..Len(assets)] ==
          IF i = 0 THEN countryMap
          ELSE With(acc[i - 1], LAMBDA before : addAssetExposure(before, assets[i]))
    IN  acc[Len(assets)])

weightedAverage(weighted, exposure) ==
  IF RLt(Num(0), exposure) THEN RDiv(weighted, exposure) ELSE Num(0)

\* variant: the exposure percentage left as a fraction of the total
countryPerformanceAsFraction(entry, totalExposure, timeframe) ==
  With(entry.totalExposure, LAMBDA exposure :
  With(weightedAverage(entry.weightedDay, exposure), LAMBDA performanceDay :
  With(weightedAverage(entry.weightedMonth, exposure), LAMBDA performanceMonth :
  With(weightedAverage(entry.weightedYtd, exposure), LAMBDA performanceYtd :
    [code |-> entry.code,
     name |-> entry.name,
     avgPerformance |-> IF timeframe = "day" THEN performanceDay
                        ELSE IF timeframe = "month" THEN performanceMonth
                        ELSE performanceYtd,
     performanceDay |-> performanceDay,
     performanceMonth |-> performanceMonth,
     performanceYtd |-> performanceYtd,
     assetCount |-> Cardinality(entry.tickers),
     totalExposure |-> exposure,
     exposurePct |-> IF RLt(Num(0), totalExposure)
                     THEN RDiv(exposure, totalExposure)
                     ELSE Num(0),
     coordinates |-> entry.coordinates]))))

countryPerformance(entry, totalExposure, timeframe) ==
  With(entry.totalExposure, LAMBDA exposure :
  With(weightedAverage(entry.weightedDay, exposure), LAMBDA performanceDay :
  With(weightedAverage(entry.weightedMonth, exposure), LAMBDA performanceMonth :
  With(weightedAverage(entry.weightedYtd, exposure), LAMBDA performanceYtd :
    [code |-> entry.code,
     name |-> entry.name,
     avgPerformance |-> IF timeframe = "day" THEN performanceDay
                        ELSE IF timeframe = "month" THEN performanceMonth
                        ELSE performanceYtd,
     performanceDay |-> performanceDay,
     performanceMonth |-> performanceMonth,
     performanceYtd |-> performanceYtd,
     assetCount |-> Cardinality(entry.tickers),
     totalExposure |-> exposure,
     exposurePct |-> IF RLt(Num(0), totalExposure)
                     THEN RMul(RDiv(exposure, totalExposure), Num(100))
                     ELSE Num(0),
     coordinates |-> entry.coordinates]))))

\* sort((left, right) => right.totalExposure - left.totalExposure)
insertByExposure(sorted, item) ==
  With({i \in 1..Len(sorted) : RLt(sorted[i].totalExposure, item.totalExposure)},
       LAMBDA smaller :
         IF smaller = {} THEN Append(sorted, item)
         ELSE With(CHOOSE i \in smaller : \A j \in smaller : i <= j, LAMBDA at :
                SubSeq(sorted, 1, at - 1) \o << item >> \o SubSeq(sorted, at, Len(sorted))))

sortByExposure(items) ==
  With(items, LAMBDA list :
    LET sorted[i \in 0..Len(list)] ==
          IF i = 0 THEN << >>
          ELSE With(sorted[i - 1], LAMBDA before : insertByExposure(before, list[i]))
    IN  sorted[Len(list)])

marketRegion(country, index) ==
  [id |-> <<"region", country.code, index>>,
   code |-> country.code,
   name |-> country.name,
   value |-> country.exposurePct,
   performance |-> country.avgPerformance,
   exposure |-> country.exposurePct,
   coordinates |-> country.coordinates]

\* the countries and regions of a filled countryMap
geographicOf(countryMap, timeframe) ==
  With(SumValues([i \in 1..Len(countryMap) |->
                    [k |-> countryMap[i].k, v |-> countryMap[i].v.totalExposure]]),
       LAMBDA totalExposure :
    With(sortByExposure([i \in 1..Len(countryMap) |->
                           countryPerformance(countryMap[i].v, totalExposure, timeframe)]),
         LAMBDA countries :
      [regions |-> [i \in 1..Len(countries) |-> marketRegion(countries[i], i - 1)],
       countries |-> countries]))

----------------------------------------------------------------------------
(* frontend/components/PortfolioTrendPanel.tsx *)

\* rows.filter(...): created, valued, and the value positive
IsValued(row) ==
  /\ ~IsNull(row.created_at)
  /\ ~IsNull(row.total_value_eur)
  /\ RLt(Num(0), row.total_value_eur)

\* { date: snapshot_date ?? created_at, value: total_value_eur }
normalizedPoint(row) ==
  [date |-> Coalesce(row.snapshot_date, row.created_at), value |-> row.total_value_eur]

insertByDate(sorted, item) ==
  With({i \in 1..Len(sorted) : RLt(item.date, sorted[i].date)}, LAMBDA later :
    IF later = {} THEN Append(sorted, item)
    ELSE With(CHOOSE i \in later : \A j \in later : i <= j, LAMBDA at :
           SubSeq(sorted, 1, at - 1) \o << item >> \o SubSeq(sorted, at, Len(sorted))))

sortByDate(items) ==
  With(items, LAMBDA list :
    LET sorted[i \in 0..Len(list)] ==
          IF i = 0 THEN << >>
          ELSE With(sorted[i - 1], LAMBDA before : insertByDate(before, list[i]))
    IN  sorted[Len(list)])

normalizePoints(rows) ==
  With(SelectSeq(rows, IsValued), LAMBDA valued :
    sortByDate([i \in 1..Len(valued) |-> normalizedPoint(valued[i])]))

\* resolveTrendState(macdLine[index] ?? null, ..., 60)
stateAt(macd, rsi, momentum, i) ==
  technicalIndicators_resolveTrendState(macd.macdLine[i], macd.signalLine[i], rsi[i],
                                        momentum[i], RsiBullThreshold)

\* the useMemo of the panel
trendPoints(rows) ==
  With(normalizePoints(rows), LAMBDA normalized :
  With([i \in 1..Len(normalized) |-> normalized[i].value], LAMBDA values :
  With(calculateMACD(values, MacdShortPeriod, MacdLongPeriod, MacdSignalPeriod),
       LAMBDA macd :
  With(calculateRSI(values, RsiPeriod), LAMBDA rsi :
  With(calculateMomentum(values, MomentumPeriod), LAMBDA momentum :
    [i \in 1..Len(normalized) |->
       With(stateAt(macd, rsi, momentum, i), LAMBDA state :
         [date |-> normalized[i].date,
          value |-> normalized[i].value,
          macd |-> macd.macdLine[i],
          signal |-> macd.signalLine[i],
          hist |-> macd.histogram[i],
          rsi |-> rsi[i],
          momentum |-> momentum[i],
          trendState |-> state,
          trendChanged |-> i > 1 /\ stateAt(macd, rsi, momentum, i - 1) # state])])))))

----------------------------------------------------------------------------
(* frontend/components/GovernanceWidget.tsx *)

\* variant: a drift of exactly half the band is a WARNING
calculateDriftStatusHalfOpen(drift, toleranceBand) ==
  With(RAbs(drift), LAMBDA absDrift :
    With(RDiv(toleranceBand, Num(2)), LAMBDA halfBand :
      IF RLe(absDrift, toleranceBand)
      THEN IF RLt(absDrift, halfBand) THEN "OK" ELSE "WARNING"
      ELSE "BREACH"))

calculateDriftStatus(drift, toleranceBand) ==
  With(RAbs(drift), LAMBDA absDrift :
    With(RDiv(toleranceBand, Num(2)), LAMBDA halfBand :
      IF RLe(absDrift, toleranceBand)
      THEN IF RLe(absDrift, halfBand) THEN "OK" ELSE "WARNING"
      ELSE "BREACH"))

\* the same function in the earlier widget
calculateDriftStatusBefore(drift, toleranceBand) ==
  With(RAbs(drift), LAMBDA absDrift :
    With(RDiv(toleranceBand, Num(2)), LAMBDA halfBand :
      With(toleranceBand, LAMBDA fullBand :
        IF RLe(absDrift, halfBand) THEN "OK"
        ELSE IF RLe(absDrift, fullBand) THEN "WARNING"
        ELSE "BREACH")))

\* String.prototype.toUpperCase on the asset classes of the model
ToUpperClass(s) ==
  CASE s \in {"Equity", "equity"} -> "EQUITY"
    [] s \in {"Stock", "stock"} -> "STOCK"
    [] s \in {"Bond", "bond"} -> "BOND"
    [] s \in {"Bonds", "bonds"} -> "BONDS"
    [] s \in {"fixed_income", "Fixed_income"} -> "FIXED_INCOME"
    [] s \in {"Cash", "cash"} -> "CASH"
    [] s \in {"Commodity", "commodity"} -> "COMMODITY"
    [] s \in {"Unknown", "unknown"} -> "UNKNOWN"
    [] OTHER -> s

\* charAt(0).toUpperCase() + slice(1).toLowerCase() on the asset classes of the model
Capitalized(s) ==
  CASE s \in {"commodity", "COMMODITY"} -> "Commodity"
    [] s \in {"unknown", "UNKNOWN"} -> "Unknown"
    [] OTHER -> s

normalizeAssetClass(assetClass) ==
  IF assetClass = NoString \/ assetClass = "" THEN NoString
  ELSE With(ToUpperClass(assetClass), LAMBDA upper :
         IF upper \in {"EQUITY", "STOCK", "STOCKS"} THEN "Equity"
         ELSE IF upper \in {"BOND", "BONDS", "FIXED_INCOME"} THEN "Bond"
         ELSE IF upper \in {"CASH", "CASH_EQUIVALENTS"} THEN "Cash"
         ELSE Capitalized(assetClass))

UnknownAlertPct == 10
DefaultToleranceBand == 5
TargetTotalPct == 100

\* (asset.price || 0) * (asset.quantity || 1)
assetValue(asset) ==
  With(asset, LAMBDA a :
    RMul(IF IsNull(a.price) THEN Num(0) ELSE a.price,
         IF IsNull(a.quantity) \/ a.quantity.n = 0 THEN Num(1) ELSE a.quantity))

totalValueOf(assets) ==
  With(assets, LAMBDA list :
    LET sum[i \in 0..Len(list)] ==
          IF i = 0 THEN Num(0) ELSE RAdd(sum[i - 1], assetValue(list[i]))
    IN  sum[Len(list)])

\* normalizeAssetClass(asset.asset_class), 'UNKNOWN' when it is null
assetClassOf(asset) ==
  With(normalizeAssetClass(asset.asset_class), LAMBDA assetClass :
    IF assetClass = NoString THEN "UNKNOWN" ELSE assetClass)

allocationByClassOf(assets) ==
  With(assets, LAMBDA list :
    LET acc[i \in 0..Len(list)] ==
          IF i = 0 THEN << >>
          ELSE With(acc[i - 1], LAMBDA before :
                 With(assetClassOf(list[i]), LAMBDA assetClass :
                   Put(before, assetClass,
                       RAdd(GetOrZero(before, assetClass), assetValue(list[i])))))
    IN  acc[Len(list)])

\* totalValue > 0 ? (value / totalValue) * 100 : 0
pctOf(value, totalValue) ==
  IF RLt(Num(0), totalValue) THEN RMul(RDiv(value, totalValue), Num(100)) ELSE Num(0)

\* normalizeAssetClass(target.asset_class) || target.asset_class
normalizedClass(target) ==
  With(normalizeAssetClass(target.asset_class), LAMBDA class :
    IF class = NoString THEN target.asset_class ELSE class)

totalTargetPctOf(targets) ==
  With(targets, LAMBDA list :
    LET sum[i \in 0..Len(list)] ==
          IF i = 0 THEN Num(0) ELSE RAdd(sum[i - 1], list[i].target_pct)
    IN  sum[Len(list)])

targetEntry(target, allocationByClass, totalValue) ==
  With(pctOf(GetOrZero(allocationByClass, normalizedClass(target)), totalValue),
       LAMBDA currentPct :
    With(RSub(currentPct, target.target_pct), LAMBDA drift :
      [asset_class |-> normalizedClass(target),
       current_pct |-> currentPct,
       target_pct |-> target.target_pct,
       tolerance_band |-> target.tolerance_band,
       drift |-> drift,
       drift_status |-> calculateDriftStatus(drift, target.tolerance_band)]))

unknownEntry(unknownPct) ==
  [asset_class |-> "UNKNOWN",
   current_pct |-> unknownPct,
   target_pct |-> Num(0),
   tolerance_band |-> Num(0),
   drift |-> unknownPct,
   drift_status |-> IF RLt(Num(UnknownAlertPct), unknownPct) THEN "BREACH" ELSE "WARNING"]

untargetedEntry(entry, totalValue) ==
  [asset_class |-> entry.k,
   current_pct |-> pctOf(entry.v, totalValue),
   target_pct |-> Num(0),
   tolerance_band |-> Num(DefaultToleranceBand),
   drift |-> Num(0),
   drift_status |-> "OK"]

\* a.asset_class.localeCompare(b.asset_class) on the asset classes of the model
ClassOrder == << "", "Bond", "Cash", "Commodity", "Equity", "Unknown", "UNKNOWN" >>
classRank(class) == CHOOSE i \in 1..Len(ClassOrder) : ClassOrder[i] = class

insertByClass(sorted, item) ==
  With({i \in 1..Len(sorted) : classRank(sorted[i].asset_class) > classRank(item.asset_class)},
       LAMBDA greater :
         IF greater = {} THEN Append(sorted, item)
         ELSE With(CHOOSE i \in greater : \A j \in greater : i <= j, LAMBDA at :
                SubSeq(sorted, 1, at - 1) \o << item >> \o SubSeq(sorted, at, Len(sorted))))

sortByClass(items) ==
  With(items, LAMBDA list :
    LET sorted[i \in 0..Len(list)] ==
          IF i = 0 THEN << >>
          ELSE With(sorted[i - 1], LAMBDA before : insertByClass(before, list[i]))
    IN  sorted[Len(list)])

EmptyAllocation ==
  [allocationData |-> << >>, hasBreach |-> FALSE, totalTargetPct |-> Num(0),
   unknownPct |-> Num(0)]

allocationEntries(targets, allocationByClass, totalValue, unknownPct) ==
  With([i \in 1..Len(targets) |-> targetEntry(targets[i], allocationByClass, totalValue)]
         \o (IF RLt(Num(0), GetOrZero(allocationByClass, "UNKNOWN"))
             THEN << unknownEntry(unknownPct) >> ELSE << >>),
       LAMBDA allocation :
         IF allocation = << >>
         THEN [i \in 1..Len(allocationByClass) |->
                 untargetedEntry(allocationByClass[i], totalValue)]
         ELSE allocation)

\* the useMemo of the widget
computeAllocation(assets, targets) ==
  IF assets = << >> THEN EmptyAllocation
  ELSE With(totalValueOf(assets), LAMBDA totalValue :
         IF totalValue = Num(0) THEN EmptyAllocation
         ELSE With(allocationByClassOf(assets), LAMBDA allocationByClass :
                With(pctOf(GetOrZero(allocationByClass, "UNKNOWN"), totalValue),
                     LAMBDA unknownPct :
                  With(allocationEntries(targets, allocationByClass, totalValue, unknownPct),
                       LAMBDA allocation :
                    [allocationData |-> sortByClass(allocation),
                     hasBreach |-> \E i \in 1..Len(allocation) :
                                     allocation[i].drift_status = "BREACH",
                     totalTargetPct |-> totalTargetPctOf(targets),
                     unknownPct |-> unknownPct]))))

\* what the widget renders: the allocation and its two banners
renderGovernance(assets, targets) ==
  With(computeAllocation(assets, targets), LAMBDA memo :
    [allocationData |-> memo.allocationData,
     hasBreach |-> memo.hasBreach,
     totalTargetPct |-> memo.totalTargetPct,
     unknownPct |-> memo.unknownPct,
     configurationError |->
       /\ Len(targets) > 0
       /\ RLt(Rat(1, 10), RAbs(RSub(memo.totalTargetPct, Num(TargetTotalPct)))),
     unknownAlert |-> RLt(Num(UnknownAlertPct), memo.unknownPct),
     none |-> FALSE])

NoGovernance ==
  [allocationData |-> << >>, hasBreach |-> FALSE, totalTargetPct |-> Num(0),
   unknownPct |-> Num(0), configurationError |-> FALSE, unknownAlert |-> FALSE,
   none |-> TRUE]

\* no call of calculateDriftStatus made
NoDriftArgs == [drift |-> NoNumber, toleranceBand |-> NoNumber, none |-> TRUE]

----------------------------------------------------------------------------
VARIABLES marketRows, currencies, portfolioRows, positionRows, pc,
          positions, portfolioNameById, rates, marketByTicker,
          portfolioOptions, assetsByPortfolio,
          indicators, trendState,
          driftArgs, driftStatus, driftStatusBefore,
          assets, targets, governance,
          snapshotTable, snapshots, panelLoading, points,
          selectedPortfolioId, geographic,
          priceSeries, periods, emaResult, rsiResult, macdResult,
          coveragePct, shownBundle, inflight, selections, intervals, heldPortfolios, storeVersion,
          coverageTable,
          selectors, tableColumns, fallback, queryLog,
          fxCurrencies, fxState, fxCache, fxPolls

store == <<marketRows, currencies, portfolioRows, positionRows>>

\* buildGeographicPerformance not called
NoGeographic ==
  [none |-> TRUE, selectedPortfolioId |-> ALL, timeframe |-> "day",
   regions |-> << >>, countries |-> << >>]

\* the countries of the page as a countryMap
shownCountryMap ==
  [i \in 1..Len(geographic.countries) |->
     With(geographic.countries[i], LAMBDA country :
       [k |-> country.code,
        v |-> [newCountry(country.code) EXCEPT
                 !.totalExposure = country.totalExposure,
                 !.weightedDay = RMul(country.performanceDay, country.totalExposure),
                 !.weightedMonth = RMul(country.performanceMonth, country.totalExposure),
                 !.weightedYtd = RMul(country.performanceYtd, country.totalExposure)]])]

\* variant: the countryMap outlives the call
buildGeographicPerformanceOnSharedMap(holdings, timeframe) ==
  geographicOf(accumulateCountries(shownCountryMap, holdings), timeframe)

buildGeographicPerformance(holdings, timeframe) ==
  geographicOf(accumulateCountries(<< >>, holdings), timeframe)

\* assetsByPortfolio[selectedPortfolioId] ?? assetsByPortfolio.ALL ?? []
selectedAssets(byPortfolio, key) ==
  IF Has(byPortfolio, key) THEN Get(byPortfolio, key)
  ELSE IF Has(byPortfolio, ALL) THEN Get(byPortfolio, ALL)
  ELSE << >>

loadVars == <<marketRows, currencies, portfolioRows, positionRows, pc,
              positions, portfolioNameById, rates, marketByTicker,
              portfolioOptions, assetsByPortfolio>>

trendVars == <<indicators, trendState>>

driftVars == <<driftArgs, driftStatus, driftStatusBefore>>

widgetVars == <<assets, targets, governance, selectedPortfolioId>>

panelVars == <<snapshotTable, snapshots, panelLoading, points>>

geoVars == <<geographic>>

seriesVars == <<priceSeries, periods, emaResult, rsiResult, macdResult>>

dashboardVars == <<coveragePct, shownBundle, inflight, selections, intervals, heldPortfolios,
                   storeVersion, coverageTable>>

\* the indicator library and the effects of the pages, each run on its own
fallbackVars == <<selectors, tableColumns, fallback, queryLog>>

fxVars == <<fxCurrencies, fxState, fxCache, fxPolls>>

toolVars == <<seriesVars, dashboardVars, fallbackVars, fxVars>>

viewVars == <<trendVars, driftVars, widgetVars, panelVars, geoVars, toolVars>>

vars == <<loadVars, viewVars>>

\* nothing fetched and nothing aggregated
LoadIdle ==
  /\ positionRows = << >>
  /\ marketRows = << >>
  /\ currencies = << >>
  /\ portfolioRows = << >>
  /\ pc = "idle"
  /\ positions = << >>
  /\ portfolioNameById = << >>
  /\ rates = << >>
  /\ marketByTicker = << >>
  /\ portfolioOptions = << >>
  /\ assetsByPortfolio = << >>

\* resolveTrendState not called
TrendIdle ==
  /\ indicators = NoIndicators
  /\ trendState = NoString

\* calculateDriftStatus not called
DriftIdle ==
  /\ driftArgs = NoDriftArgs
  /\ driftStatus = NoString
  /\ driftStatusBefore = NoString

\* the widget not mounted
WidgetIdle ==
  /\ assets = << >>
  /\ targets = << >>
  /\ governance = NoGovernance
  /\ selectedPortfolioId = ALL

\* buildGeographicPerformance not called
GeoIdle == geographic = NoGeographic

\* the panel before its fetch
PanelMounted ==
  /\ snapshots = << >>
  /\ panelLoading = TRUE
  /\ points = << >>

PanelIdle ==
  /\ snapshotTable = << >>
  /\ PanelMounted

\* no call made yet
NotCalled == [called |-> FALSE, value |-> << >>]

NoPeriods == [period |-> 0, shortPeriod |-> 0, longPeriod |-> 0, signalPeriod |-> 0]

\* calculateEMA, calculateRSI and calculateMACD not called
SeriesIdle ==
  /\ priceSeries = << >>
  /\ periods = NoPeriods
  /\ emaResult = NotCalled
  /\ rsiResult = NotCalled
  /\ macdResult = NotCalled

\* useState({ ALL: [] }), useState([]): nothing fetched yet
NoBundle == [keys |-> {}, options |-> {}, version |-> 0]

\* the dashboard not mounted
DashboardIdle ==
  /\ coveragePct = NoNumber
  /\ shownBundle = NoBundle
  /\ inflight = {}
  /\ selections = 0
  /\ intervals = 0
  /\ heldPortfolios = {}
  /\ storeVersion = 0
  /\ coverageTable = << >>

\* selectWithFallback before its loop
NoFallback ==
  [pc |-> "idle", index |-> 1, lastErrorMessage |-> "", rows |-> << >>, warned |-> FALSE]

\* selectWithFallback not called
FallbackIdle ==
  /\ selectors = << >>
  /\ tableColumns = {}
  /\ fallback = NoFallback
  /\ queryLog = << >>

\* the FX page not mounted
FxIdle ==
  /\ fxCurrencies = << >>
  /\ fxState = "EMPTY"
  /\ fxCache = << >>
  /\ fxPolls = 0

ToolsIdle == SeriesIdle /\ DashboardIdle /\ FallbackIdle /\ FxIdle

ViewsIdle == TrendIdle /\ DriftIdle /\ WidgetIdle /\ PanelIdle /\ GeoIdle /\ ToolsIdle

\* a snapshot of position rows and market rows drawn from two pools
Snapshot(positionPool, marketPool) ==
  /\ positionRows \in {rows \in SeqsUpTo(positionPool, MaxPositions) : UniqueKeys(rows)}
  /\ marketRows \in SeqsUpTo(marketPool, MaxMarketRows)
  /\ currencies = CurrencyRows
  /\ portfolioRows = PortfolioRows
  /\ pc = "idle"
  /\ positions = << >>
  /\ portfolioNameById = << >>
  /\ rates = << >>
  /\ marketByTicker = << >>
  /\ portfolioOptions = << >>
  /\ assetsByPortfolio = << >>
  /\ ViewsIdle

Init == Snapshot(ValuationRows, ValuationMarketRows)

InitGeo == Snapshot(GeoRows, GeoMarketRows)

\* snapshots that differ in the rows of currencies
InitRates ==
  /\ positionRows \in SeqsUpTo({ PositionRow(PortfolioA, AAPL, Num(10), Num(10), Num(150),
                                              "usd", NoNumber) }, 1)
  /\ marketRows \in SeqsUpTo({ MarketRow(AAPL, Apple, Num(180), "USD") }, 1)
  /\ currencies \in SeqsUpTo(RateRows, MaxCurrencyRows)
  /\ portfolioRows = PortfolioRows
  /\ pc = "idle"
  /\ positions = << >>
  /\ portfolioNameById = << >>
  /\ rates = << >>
  /\ marketByTicker = << >>
  /\ portfolioOptions = << >>
  /\ assetsByPortfolio = << >>
  /\ ViewsIdle

\* the body of loadPortfolioAggregation
Aggregate ==
  /\ positions' = resolvePositions(fetchPositions(positionRows),
                                   fetchMarketWatchRows(marketRows))
  /\ portfolioNameById' =
       resolvePortfolioNames(fetchPortfolios(portfolioRows),
                             resolvePositionPortfolioIds(positions'))
  /\ portfolioOptions' =
       resolvePortfolioOptions(resolvePositionPortfolioIds(positions'), portfolioNameById')
  /\ rates' = toCurrencyRateMap(currencies)
  /\ marketByTicker' = toMarketByTicker(fetchMarketWatchRows(marketRows))
  /\ assetsByPortfolio' =
       aggregatePortfolios(positions', portfolioOptions', marketByTicker',
                           portfolioNameById', rates')
  /\ UNCHANGED store

\* loadPortfolioAggregation
Load ==
  /\ pc = "idle"
  /\ Aggregate
  /\ pc' = "loaded"
  /\ UNCHANGED viewVars

Next == Load

\* snapshots that differ in quantities, costs, currencies, targets and prices
Spec == Init /\ [][Next]_vars

\* snapshots that differ in tickers and country coverage
SpecGeo == InitGeo /\ [][Next]_vars

SpecRates == InitRates /\ [][Next]_vars

\* snapshots of raw rows
InitRows ==
  /\ positionRows \in {rows \in SeqsUpTo(RawPositionRows, MaxPositions) : UniqueKeys(rows)}
  /\ marketRows \in SeqsUpTo(RawMarketRows, MaxMarketRows)
  /\ currencies = CurrencyRows
  /\ portfolioRows \in SeqsUpTo(RawPortfolioRows, 1)
  /\ pc = "idle"
  /\ positions = << >>
  /\ portfolioNameById = << >>
  /\ rates = << >>
  /\ marketByTicker = << >>
  /\ portfolioOptions = << >>
  /\ assetsByPortfolio = << >>
  /\ ViewsIdle

SpecRows == InitRows /\ [][Next]_vars

\* the four inputs of resolveTrendState, each null or around its threshold
InitTrend ==
  /\ LoadIdle
  /\ indicators \in [macdLine : {NoNumber, Rat(-1, 2), Num(0), Rat(1, 2)},
                      macdSignal : {NoNumber, Rat(-1, 2), Num(0), Rat(1, 2)},
                      rsi14 : {NoNumber, Num(0), Rat(3999, 100), Num(40), Rat(5999, 100),
                               Num(60), Num(100)},
                      momentum20 : {NoNumber, Num(-1), Num(0), Num(1)}]
  /\ trendState = NoString
  /\ DriftIdle
  /\ WidgetIdle
  /\ PanelIdle
  /\ GeoIdle
  /\ ToolsIdle

\* resolveTrendState(macdLine, macdSignal, rsi14, momentum20)
ResolveTrend ==
  /\ trendState = NoString
  /\ indicators # NoIndicators
  /\ trendState' = technicalIndicators_resolveTrendState(
                      indicators.macdLine, indicators.macdSignal, indicators.rsi14,
                      indicators.momentum20, RsiBullThreshold)
  /\ UNCHANGED indicators
  /\ UNCHANGED loadVars
  /\ UNCHANGED driftVars
  /\ UNCHANGED widgetVars
  /\ UNCHANGED panelVars
  /\ UNCHANGED geoVars
  /\ UNCHANGED toolVars

NextTrend == ResolveTrend

SpecTrend == InitTrend /\ [][NextTrend]_vars

\* drifts on both sides of half the band and of the band, of either sign
DriftValues ==
  { Num(0), Rat(19, 10), Num(2), Rat(21, 10), Num(4), Rat(41, 10),
    Rat(-19, 10), Num(-2), Rat(-21, 10), Num(-4), Rat(-41, 10) }

ToleranceBands == { Num(4), Num(0), Num(5), Num(-4) }

InitDrift ==
  /\ LoadIdle
  /\ TrendIdle
  /\ driftArgs \in [drift : DriftValues, toleranceBand : ToleranceBands]
  /\ driftStatus = NoString
  /\ driftStatusBefore = NoString
  /\ WidgetIdle
  /\ PanelIdle
  /\ GeoIdle
  /\ ToolsIdle

\* calculateDriftStatus(drift, toleranceBand) of GovernanceWidget.tsx
CalculateDriftStatus ==
  /\ driftArgs # NoDriftArgs
  /\ driftStatus = NoString
  /\ driftStatus' = calculateDriftStatus(driftArgs.drift, driftArgs.toleranceBand)
  /\ UNCHANGED <<driftArgs, driftStatusBefore>>
  /\ UNCHANGED loadVars
  /\ UNCHANGED trendVars
  /\ UNCHANGED widgetVars
  /\ UNCHANGED panelVars
  /\ UNCHANGED geoVars
  /\ UNCHANGED toolVars

\* calculateDriftStatus(drift, toleranceBand) of the earlier widget
CalculateDriftStatusBefore ==
  /\ driftArgs # NoDriftArgs
  /\ driftStatusBefore = NoString
  /\ driftStatusBefore' =
       calculateDriftStatusBefore(driftArgs.drift, driftArgs.toleranceBand)
  /\ UNCHANGED <<driftArgs, driftStatus>>
  /\ UNCHANGED loadVars
  /\ UNCHANGED trendVars
  /\ UNCHANGED widgetVars
  /\ UNCHANGED panelVars
  /\ UNCHANGED geoVars
  /\ UNCHANGED toolVars

NextDrift == CalculateDriftStatus \/ CalculateDriftStatusBefore

SpecDrift == InitDrift /\ [][NextDrift]_vars

MaxAssets == 2
MaxTargets == 2

\* a Holding as aggregateByTicker builds it, reduced to what the widget reads
\* and to its market value in EUR
WidgetAsset(ticker, price, quantity, currency, assetClass, marketValueEur) ==
  [ticker |-> ticker, price |-> price, quantity |-> quantity, currency |-> currency,
   asset_class |-> assetClass, market_value_eur |-> marketValueEur]

\* holdings quoted in EUR and in USD (at 0.9 EUR), classified, unclassified,
\* not held and unpriced
WidgetAssets ==
  { WidgetAsset(AAPL, Num(180), Num(10), "USD", "EQUITY", Num(1620)),
    WidgetAsset(MCPA, Num(100), Num(18), "EUR", "Bond", Num(1800)),
    WidgetAsset(IndexX, Num(100), Num(1), "USD", NoString, Num(90)),
    WidgetAsset(<<"C","S","H">>, Num(820), Num(1), "EUR", "cash", Num(820)),
    WidgetAsset(<<"O","L","D">>, Num(50), Num(0), "EUR", "", Num(0)),
    WidgetAsset(<<"N","E","W">>, Num(0), Num(5), "EUR", "stock", Num(0)) }

GovernanceTarget(assetClass, targetPct, toleranceBand) ==
  [asset_class |-> assetClass, target_pct |-> targetPct, tolerance_band |-> toleranceBand]

GovernanceTargets ==
  { GovernanceTarget("Equity", Num(60), Num(4)),
    GovernanceTarget("BOND", Num(40), Num(4)),
    GovernanceTarget("equity", Rat(3995, 100), Num(2)),
    GovernanceTarget("Cash", Num(10), Num(5)) }

DistinctTickers(list) ==
  \A i, j \in 1..Len(list) : list[i].ticker = list[j].ticker => i = j

DistinctTargets(list) == \A i, j \in 1..Len(list) : list[i] = list[j] => i = j

InitWidget ==
  /\ LoadIdle
  /\ TrendIdle
  /\ DriftIdle
  /\ assets \in {list \in SeqsUpTo(WidgetAssets, MaxAssets) : DistinctTickers(list)}
  /\ targets \in {list \in SeqsUpTo(GovernanceTargets, MaxTargets) : DistinctTargets(list)}
  /\ governance = NoGovernance
  /\ selectedPortfolioId = ALL
  /\ PanelIdle
  /\ GeoIdle
  /\ ToolsIdle

\* GovernanceWidget({ assets }) with the targets fetched
RenderGovernance ==
  /\ governance = NoGovernance
  /\ governance' = renderGovernance(assets, targets)
  /\ UNCHANGED <<assets, targets, selectedPortfolioId>>
  /\ UNCHANGED loadVars
  /\ UNCHANGED trendVars
  /\ UNCHANGED driftVars
  /\ UNCHANGED panelVars
  /\ UNCHANGED geoVars
  /\ UNCHANGED toolVars

NextWidget == RenderGovernance

SpecWidget == InitWidget /\ [][NextWidget]_vars

MaxHistory == 34

SnapshotRow(createdAt, snapshotDate, value) ==
  [created_at |-> Num(createdAt), snapshot_date |-> snapshotDate,
   total_value_eur |-> value]

\* a history of the same value day after day; swapped, the first two rows carry
\* each other's snapshot date
FlatHistory(length, swapped) ==
  [i \in 1..length |->
     SnapshotRow(i, IF swapped /\ length >= 2 /\ i <= 2 THEN Num(3 - i) ELSE NoNumber,
                 Num(100))]

\* rows the panel drops: no value, a value of 0
UnvaluedRows ==
  { << >>, << SnapshotRow(0, NoNumber, NoNumber) >>, << SnapshotRow(0, Num(0), Num(0)) >> }

\* the value of the last day: none, lower, the same, higher
LastValues == { NoNumber, Num(80), Num(100), Num(125) }

InitPanel ==
  /\ LoadIdle
  /\ TrendIdle
  /\ DriftIdle
  /\ WidgetIdle
  /\ snapshotTable \in
       { unvalued \o FlatHistory(length, swapped)
           \o (IF IsNull(last) THEN << >>
               ELSE << SnapshotRow(length + 1, NoNumber, last) >>) :
         unvalued \in UnvaluedRows, length \in 0..MaxHistory, swapped \in BOOLEAN,
         last \in LastValues }
  /\ PanelMounted
  /\ GeoIdle
  /\ ToolsIdle

\* fetchSnapshots, and the render that follows it
FetchSnapshots ==
  /\ panelLoading
  /\ snapshots' = snapshotTable
  /\ panelLoading' = FALSE
  /\ points' = trendPoints(snapshots')
  /\ UNCHANGED snapshotTable
  /\ UNCHANGED loadVars
  /\ UNCHANGED trendVars
  /\ UNCHANGED driftVars
  /\ UNCHANGED widgetVars
  /\ UNCHANGED geoVars
  /\ UNCHANGED toolVars

NextPanel == FetchSnapshots

SpecPanel == InitPanel /\ [][NextPanel]_vars

\* rows of two portfolios holding two tickers, with classes, coverage and a
\* day performance on the market side
RerunRows ==
  { GeoRow(PortfolioA, AAPL, Num(10), FractionsCoverage),
    GeoRow(PortfolioB, AAPL, Num(5), NoCoverage),
    GeoRow(PortfolioB, MCPA, Num(5), NoCoverage) }

RerunMarketRows ==
  { [GeoMarketRow(AAPL, Num(180), NoCoverage)
       EXCEPT !.asset_class = "EQUITY", !.perf_day_eur = Rat(1, 100)],
    [MarketRow(MCPA, Lvmh, Num(50), "EUR")
       EXCEPT !.asset_class = "Bond", !.geo_coverage = FranceCoverage] }

RerunTargets ==
  << GovernanceTarget("Equity", Num(60), Num(4)), GovernanceTarget("BOND", Num(40), Num(4)) >>

InitRerun ==
  /\ positionRows \in {rows \in SeqsUpTo(RerunRows, MaxPositions) : UniqueKeys(rows)}
  /\ marketRows \in SeqsUpTo(RerunMarketRows, MaxMarketRows)
  /\ currencies = CurrencyRows
  /\ portfolioRows = PortfolioRows
  /\ pc = "idle"
  /\ positions = << >>
  /\ portfolioNameById = << >>
  /\ rates = << >>
  /\ marketByTicker = << >>
  /\ portfolioOptions = << >>
  /\ assetsByPortfolio = << >>
  /\ TrendIdle
  /\ DriftIdle
  /\ PanelIdle
  /\ GeoIdle
  /\ ToolsIdle
  /\ assets = << >>
  /\ targets = RerunTargets
  /\ governance = NoGovernance
  /\ selectedPortfolioId = ALL

\* buildGeographicPerformance(assets, timeframe) on the holdings of a portfolio
showGeography(byPortfolio, key, timeframe) ==
  With(buildGeographicPerformance(selectedAssets(byPortfolio, key), timeframe),
       LAMBDA result :
    [none |-> FALSE, selectedPortfolioId |-> key, timeframe |-> timeframe,
     regions |-> result.regions, countries |-> result.countries])

\* the geography page of a portfolio and a timeframe
ShowGeography(key, timeframe) ==
  /\ pc = "loaded"
  /\ geographic.none
  /\ geographic' = showGeography(assetsByPortfolio, key, timeframe)
  /\ UNCHANGED loadVars
  /\ UNCHANGED <<trendVars, driftVars, widgetVars, panelVars>>
  /\ UNCHANGED toolVars

\* the dashboard of a portfolio: its holdings handed to the widget
ShowGovernance(key) ==
  /\ pc = "loaded"
  /\ governance.none
  /\ selectedPortfolioId' = key
  /\ assets' = selectedAssets(assetsByPortfolio, key)
  /\ governance' = renderGovernance(assets', targets)
  /\ UNCHANGED targets
  /\ UNCHANGED loadVars
  /\ UNCHANGED <<trendVars, driftVars, panelVars, geoVars>>
  /\ UNCHANGED toolVars

\* loadPortfolioAggregation run again on the same rows, and the pages that
\* are shown rendered from its result
Reload ==
  /\ pc = "loaded"
  /\ Aggregate
  /\ pc' = "reloaded"
  /\ geographic' =
       IF geographic.none THEN geographic
       ELSE showGeography(assetsByPortfolio', geographic.selectedPortfolioId,
                          geographic.timeframe)
  /\ assets' =
       IF governance.none THEN assets
       ELSE selectedAssets(assetsByPortfolio', selectedPortfolioId)
  /\ governance' =
       IF governance.none THEN governance ELSE renderGovernance(assets', targets)
  /\ UNCHANGED <<targets, selectedPortfolioId>>
  /\ UNCHANGED <<trendVars, driftVars, panelVars>>
  /\ UNCHANGED toolVars

NextRerun ==
  \/ Load
  \/ \E key \in Keys(assetsByPortfolio), timeframe \in Timeframes :
       ShowGeography(key, timeframe)
  \/ \E key \in Keys(assetsByPortfolio) : ShowGovernance(key)
  \/ Reload

SpecRerun == InitRerun /\ [][NextRerun]_vars

----------------------------------------------------------------------------
(* The geography page on holdings of several countries *)

MaxCountryRows == 3

\* rows of two portfolios: holdings that share countries, a holding without
\* coverage, one without quantity and one sold short
CountryRows ==
  { GeoRow(PortfolioA, AAPL, Num(10), FractionsCoverage),
    GeoRow(PortfolioA, MCPA, Num(5), PercentCoverage),
    GeoRow(PortfolioB, MCPA, Num(8), NoCoverage),
    GeoRow(PortfolioB, AAPL, Num(0), NoCoverage),
    GeoRow(PortfolioB, IndexX, Num(-5), FractionsCoverage),
    GeoRow(PortfolioA, IndexX, Num(3), PercentCoverage) }

\* market_watch with a record and three performances for every ticker
CountryMarketRows ==
  << [GeoMarketRow(AAPL, Num(180), NoCoverage)
        EXCEPT !.perf_day_eur = Rat(1, 100), !.perf_month_local = Rat(2, 100),
               !.perf_ytd_eur = Rat(-3, 100)],
     [MarketRow(MCPA, Lvmh, Num(50), "EUR")
        EXCEPT !.perf_day_eur = Rat(-2, 100), !.perf_month_local = Rat(1, 100),
               !.perf_ytd_eur = Rat(4, 100)],
     [GeoMarketRow(IndexX, Num(50), FranceCoverage)
        EXCEPT !.perf_day_eur = Rat(3, 100), !.perf_ytd_eur = Rat(1, 100)] >>

InitCountries ==
  /\ positionRows \in {rows \in SeqsUpTo(CountryRows, MaxCountryRows) : UniqueKeys(rows)}
  /\ marketRows = CountryMarketRows
  /\ currencies = CurrencyRows
  /\ portfolioRows = PortfolioRows
  /\ pc = "idle"
  /\ positions = << >>
  /\ portfolioNameById = << >>
  /\ rates = << >>
  /\ marketByTicker = << >>
  /\ portfolioOptions = << >>
  /\ assetsByPortfolio = << >>
  /\ ViewsIdle

NextCountries ==
  \/ Load
  \/ \E key \in Keys(assetsByPortfolio), timeframe \in Timeframes :
       ShowGeography(key, timeframe)

SpecCountries == InitCountries /\ [][NextCountries]_vars

----------------------------------------------------------------------------
(* The indicator library on short series *)

MaxSeries == 5

\* finite positive values, as PortfolioTrendPanel.tsx hands them over
SeriesValues == { Num(1), Num(2), Num(3) }

\* the periods of a call, scaled down from 14 and 12, 26, 9
SeriesPeriods ==
  { [period |-> 1, shortPeriod |-> 1, longPeriod |-> 2, signalPeriod |-> 2],
    [period |-> 2, shortPeriod |-> 1, longPeriod |-> 2, signalPeriod |-> 2],
    [period |-> 2, shortPeriod |-> 2, longPeriod |-> 3, signalPeriod |-> 2],
    [period |-> 3, shortPeriod |-> 2, longPeriod |-> 3, signalPeriod |-> 3] }

InitSeries ==
  /\ LoadIdle
  /\ TrendIdle
  /\ DriftIdle
  /\ WidgetIdle
  /\ PanelIdle
  /\ GeoIdle
  /\ DashboardIdle
  /\ FallbackIdle
  /\ FxIdle
  /\ priceSeries \in SeqsUpTo(SeriesValues, MaxSeries)
  /\ periods \in SeriesPeriods
  /\ emaResult = NotCalled
  /\ rsiResult = NotCalled
  /\ macdResult = NotCalled

\* calculateEMA(values, period)
CalculateEMA ==
  /\ periods # NoPeriods
  /\ ~emaResult.called
  /\ emaResult' = [called |-> TRUE, value |-> calculateEMA(priceSeries, periods.period)]
  /\ UNCHANGED <<priceSeries, periods, rsiResult, macdResult>>
  /\ UNCHANGED <<loadVars, trendVars, driftVars, widgetVars, panelVars, geoVars>>
  /\ UNCHANGED <<dashboardVars, fallbackVars, fxVars>>

\* calculateRSI(values, period)
CalculateRSI ==
  /\ periods # NoPeriods
  /\ ~rsiResult.called
  /\ rsiResult' = [called |-> TRUE, value |-> calculateRSI(priceSeries, periods.period)]
  /\ UNCHANGED <<priceSeries, periods, emaResult, macdResult>>
  /\ UNCHANGED <<loadVars, trendVars, driftVars, widgetVars, panelVars, geoVars>>
  /\ UNCHANGED <<dashboardVars, fallbackVars, fxVars>>

\* calculateMACD(values, shortPeriod, longPeriod, signalPeriod)
CalculateMACD ==
  /\ periods # NoPeriods
  /\ ~macdResult.called
  /\ macdResult' =
       [called |-> TRUE,
        value |-> calculateMACD(priceSeries, periods.shortPeriod, periods.longPeriod,
                                periods.signalPeriod)]
  /\ UNCHANGED <<priceSeries, periods, emaResult, rsiResult>>
  /\ UNCHANGED <<loadVars, trendVars, driftVars, widgetVars, panelVars, geoVars>>
  /\ UNCHANGED <<dashboardVars, fallbackVars, fxVars>>

NextSeries == CalculateEMA \/ CalculateRSI \/ CalculateMACD

SpecSeries == InitSeries /\ [][NextSeries]_vars

----------------------------------------------------------------------------
(* frontend/app/page.tsx: the effect of PortfolioDashboard *)

MaxSelections == 3
MaxIntervals == 1
MaxStoreWrites == 1

\* the rows of portfolios
DashboardPortfolios == {PortfolioA, PortfolioB}

\* valuation_snapshots, newest first: portfolio_id and coverage_pct
CoverageTables ==
  { << [portfolio_id |-> NoText, coverage_pct |-> Num(70)],
       [portfolio_id |-> PortfolioA, coverage_pct |-> Num(80)] >>,
    << >> }

\* .order('created_at', { ascending: false }) ... .limit(1).maybeSingle()
latestSnapshot(table, portfolioId) ==
  With(SelectSeq(table, LAMBDA row : portfolioId = ALL \/ row.portfolio_id = portfolioId),
       LAMBDA rows : IF rows = << >> THEN << >> ELSE << rows[1] >>)

\* what fetchCoverage hands to setCoveragePct, if it calls it
coverageAnswer(table, portfolioId) ==
  With(latestSnapshot(table, portfolioId), LAMBDA data :
    IF data # << >> THEN [set |-> TRUE, value |-> data[1].coverage_pct]
    ELSE IF portfolioId # ALL
    THEN With(latestSnapshot(table, ALL), LAMBDA globalData :
           [set |-> TRUE,
            value |-> IF globalData = << >> THEN NoNumber
                      ELSE globalData[1].coverage_pct])
    ELSE [set |-> FALSE, value |-> NoNumber])

NoAnswer == [set |-> FALSE, value |-> NoNumber]

\* a call of fetchPortfolio or fetchCoverage: under is the selectedPortfolioId
\* of the closure of its effect; calls that cannot be told apart count once
Fetch(kind, under) ==
  [kind |-> kind, under |-> under, phase |-> "sent",
   bundle |-> NoBundle, coverage |-> NoAnswer]

\* the snapshots do not change, so the answer to fetchCoverage is known when
\* it is sent
CoverageFetch(under) ==
  [Fetch("coverage", under) EXCEPT
     !.phase = "answered", !.coverage = coverageAnswer(coverageTable, under)]

\* the body of the effect: fetchPortfolio() and fetchCoverage()
effectFetches(under) == { Fetch("portfolio", under), CoverageFetch(under) }

\* the dashboard mounted on ALL, its effect run once
InitDashboard ==
  /\ LoadIdle
  /\ TrendIdle
  /\ DriftIdle
  /\ WidgetIdle
  /\ PanelIdle
  /\ GeoIdle
  /\ SeriesIdle
  /\ FallbackIdle
  /\ FxIdle
  /\ coveragePct = NoNumber
  /\ shownBundle = NoBundle
  /\ coverageTable \in CoverageTables
  /\ inflight = effectFetches(ALL)
  /\ selections = 0
  /\ intervals = 0
  /\ heldPortfolios \in {{PortfolioB}, DashboardPortfolios}
  /\ storeVersion = 0

DashboardRest ==
  /\ UNCHANGED <<loadVars, trendVars, driftVars, panelVars, geoVars, seriesVars>>
  /\ UNCHANGED <<assets, targets, governance>>
  /\ UNCHANGED <<fallbackVars, fxVars>>

\* the row store answers a request with what it holds at that moment
AnswerFetch(fetch) ==
  /\ fetch \in inflight
  /\ fetch.phase = "sent"
  /\ inflight' =
       (inflight \ {fetch}) \cup
         { [fetch EXCEPT
              !.phase = "answered",
              !.bundle = [keys |-> heldPortfolios, options |-> DashboardPortfolios,
                          version |-> storeVersion]] }
  /\ UNCHANGED <<coveragePct, shownBundle, selections, intervals, heldPortfolios, storeVersion,
                 coverageTable, selectedPortfolioId>>
  /\ DashboardRest

\* fetchPortfolio after its await: the bundle set, and the selection reset to
\* ALL when the portfolio of the closure has no holdings; a changed selection
\* runs the effect again
ApplyPortfolio(fetch) ==
  /\ fetch \in inflight
  /\ fetch.kind = "portfolio"
  /\ fetch.phase = "answered"
  /\ shownBundle' = fetch.bundle
  /\ IF fetch.under # ALL /\ fetch.under \notin fetch.bundle.keys
     THEN /\ selectedPortfolioId' = ALL
          /\ IF selectedPortfolioId # ALL
             THEN /\ selections < MaxSelections
                  /\ selections' = selections + 1
                  /\ inflight' = (inflight \ {fetch}) \cup effectFetches(ALL)
             ELSE /\ inflight' = inflight \ {fetch}
                  /\ UNCHANGED selections
     ELSE /\ inflight' = inflight \ {fetch}
          /\ UNCHANGED <<selectedPortfolioId, selections>>
  /\ UNCHANGED <<coveragePct, intervals, heldPortfolios, storeVersion, coverageTable>>
  /\ DashboardRest

\* fetchCoverage after its awaits
ApplyCoverage(fetch) ==
  /\ fetch \in inflight
  /\ fetch.kind = "coverage"
  /\ fetch.phase = "answered"
  /\ coveragePct' = IF fetch.coverage.set THEN fetch.coverage.value ELSE coveragePct
  /\ inflight' = inflight \ {fetch}
  /\ UNCHANGED <<shownBundle, selections, intervals, heldPortfolios, storeVersion, coverageTable,
                 selectedPortfolioId>>
  /\ DashboardRest

\* a request that fails: the catch logs and nothing is set
FailFetch(fetch) ==
  /\ fetch \in inflight
  /\ fetch.kind = "coverage" \/ fetch.phase = "sent"
  /\ inflight' = inflight \ {fetch}
  /\ UNCHANGED <<coveragePct, shownBundle, selections, intervals, heldPortfolios, storeVersion,
                 coverageTable, selectedPortfolioId>>
  /\ DashboardRest

\* onChange of the select: the effect of the new selection runs
SelectPortfolio(portfolioId) ==
  /\ portfolioId \in shownBundle.options \cup {ALL}
  /\ portfolioId # selectedPortfolioId
  /\ selections < MaxSelections
  /\ selectedPortfolioId' = portfolioId
  /\ selections' = selections + 1
  /\ inflight' = inflight \cup effectFetches(portfolioId)
  /\ UNCHANGED <<coveragePct, shownBundle, intervals, heldPortfolios, storeVersion, coverageTable>>
  /\ DashboardRest

\* setInterval(fetchPortfolio, 300000) of the current effect
IntervalFetch ==
  /\ intervals < MaxIntervals
  /\ intervals' = intervals + 1
  /\ inflight' = inflight \cup {Fetch("portfolio", selectedPortfolioId)}
  /\ UNCHANGED <<coveragePct, shownBundle, selections, heldPortfolios, storeVersion, coverageTable,
                 selectedPortfolioId>>
  /\ DashboardRest

\* the backend writes portfolio_positions
WritePositions(held) ==
  /\ storeVersion < MaxStoreWrites
  /\ held # heldPortfolios
  /\ held # {}
  /\ heldPortfolios' = held
  /\ storeVersion' = storeVersion + 1
  /\ UNCHANGED <<coveragePct, shownBundle, inflight, selections, intervals, coverageTable,
                 selectedPortfolioId>>
  /\ DashboardRest

NextDashboard ==
  \/ \E fetch \in inflight : AnswerFetch(fetch)
  \/ \E fetch \in inflight : ApplyPortfolio(fetch)
  \/ \E fetch \in inflight : ApplyCoverage(fetch)
  \/ \E fetch \in inflight : FailFetch(fetch)
  \/ \E portfolioId \in DashboardPortfolios \cup {ALL} : SelectPortfolio(portfolioId)
  \/ IntervalFetch
  \/ \E held \in SUBSET DashboardPortfolios : WritePositions(held)

SpecDashboard == InitDashboard /\ [][NextDashboard]_vars

----------------------------------------------------------------------------
(* selectWithFallback *)

\* the columns a table may have
FallbackColumns == {"id", "name", "last_update"}

\* candidate column sets, widest first, as the four callers list them
SelectorLists ==
  { << {"id", "name", "last_update"}, {"id", "name"}, {"id"} >>,
    << {"id", "name"}, {"id"} >>,
    << {"id", "last_update"} >> }

\* the one row of the table, over the columns the table has
tableRow(columns) == [c \in columns |-> <<c, 1>>]

\* select(selector) on a table with these columns
selectRows(columns, selector) == << [c \in selector |-> tableRow(columns)[c]] >>

NoData == [null |-> TRUE, rows |-> << >>]

\* variant: a resolved candidate does not end the loop
afterQueryToLast(loop, error, data) ==
  IF ~error
  THEN [loop EXCEPT !.rows = IF data.null THEN << >> ELSE data.rows,
                    !.index = @ + 1, !.pc = "query"]
  ELSE [loop EXCEPT !.lastErrorMessage = "error", !.index = @ + 1, !.pc = "query"]

\* the loop body after its await: return the rows, or note the error and go on
afterQuery(loop, error, data) ==
  IF ~error
  THEN [loop EXCEPT !.rows = IF data.null THEN << >> ELSE data.rows, !.pc = "returned"]
  ELSE [loop EXCEPT !.lastErrorMessage = "error", !.index = @ + 1, !.pc = "query"]

InitFallback ==
  /\ LoadIdle
  /\ TrendIdle
  /\ DriftIdle
  /\ WidgetIdle
  /\ PanelIdle
  /\ GeoIdle
  /\ SeriesIdle
  /\ DashboardIdle
  /\ FxIdle
  /\ selectors \in SelectorLists
  /\ tableColumns \in SUBSET FallbackColumns
  /\ fallback = [NoFallback EXCEPT !.pc = "query"]
  /\ queryLog = << >>

FallbackRest ==
  /\ UNCHANGED <<loadVars, trendVars, driftVars, widgetVars, panelVars, geoVars>>
  /\ UNCHANGED <<seriesVars, dashboardVars, fxVars>>

\* supabase.from(table).select(selector) sent
IssueQuery ==
  /\ fallback.pc = "query"
  /\ fallback.index <= Len(selectors)
  /\ queryLog' = Append(queryLog, [selector |-> fallback.index, answer |-> "pending",
                                   data |-> NoData])
  /\ fallback' = [fallback EXCEPT !.pc = "await"]
  /\ UNCHANGED <<selectors, tableColumns>>
  /\ FallbackRest

\* { data, error } received: an error when a column is missing or the request
\* fails, else the rows or no data
AnswerQuery(error, null) ==
  /\ fallback.pc = "await"
  /\ ~(selectors[fallback.index] \subseteq tableColumns) => error
  /\ LET data == IF error \/ null THEN NoData
                 ELSE [null |-> FALSE,
                       rows |-> selectRows(tableColumns, selectors[fallback.index])]
     IN  /\ queryLog' = [queryLog EXCEPT ![Len(queryLog)] =
                           [@ EXCEPT !.answer = IF error THEN "error" ELSE "data",
                                     !.data = data]]
         /\ fallback' = afterQuery(fallback, error, data)
  /\ UNCHANGED <<selectors, tableColumns>>
  /\ FallbackRest

\* the list exhausted: the warning and the empty list
ReturnEmpty ==
  /\ fallback.pc = "query"
  /\ fallback.index > Len(selectors)
  /\ fallback' = [fallback EXCEPT !.warned = fallback.lastErrorMessage # "",
                                  !.rows = << >>, !.pc = "returned"]
  /\ UNCHANGED <<selectors, tableColumns, queryLog>>
  /\ FallbackRest

NextFallback ==
  \/ IssueQuery
  \/ \E error \in BOOLEAN, null \in BOOLEAN : AnswerQuery(error, null)
  \/ ReturnEmpty

SpecFallback == InitFallback /\ [][NextFallback]_vars

----------------------------------------------------------------------------
(* The FX page: fetchCurrencies *)

MaxPolls == 3

\* instants: a day and more ago, within the day, and Date.now()
LongAgo == 0
Recently == 1
Now == 2
NoTime == -1

FxRow(id, rate, lastUpdate) ==
  [id |-> id, symbol |-> id, rate_to_eur |-> rate, last_update |-> lastUpdate]

\* what the currencies table may return
FxTables ==
  { << >>,
    << FxRow("USD", Rat(9, 10), Recently) >>,
    << FxRow("usd", Rat(4, 5), LongAgo), FxRow("CHF", NoNumber, Recently) >>,
    << FxRow("JPY", Rat(1, 160), LongAgo) >>,
    << FxRow("GBP", Rat(23, 20), NoTime), FxRow("USD", Rat(9, 10), LongAgo) >> }

FxAsset(ticker, currency, perf, price, type) ==
  [ticker |-> ticker, currency |-> currency, perf_day_eur |-> perf,
   last_price |-> price, type |-> type]

\* what market_watch may return: no row, pairs, a pair without price beside
\* a pair on EUR, a stock
FxAssetLists ==
  { << >>,
    << FxAsset("EURUSD=X", "usd", Rat(1, 100), Rat(11, 10), NoString),
       FxAsset("GBP", "GBP", NoNumber, Rat(6, 5), "forex") >>,
    << FxAsset("CHF", "CHF", Rat(1, 100), Num(0), "Currency"),
       FxAsset("EUR", "eur", Rat(1, 100), Num(1), "FOREX") >>,
    << FxAsset("CHF", "CHF", Rat(2, 100), Rat(21, 20), "FOREX"),
       FxAsset("CHF", "CHF", Rat(-1, 100), Rat(26, 25), "FOREX") >>,
    << FxAsset("AAPL", "USD", Rat(-2, 100), Num(180), "Stock") >> }

\* what localStorage may hold at mount: nothing, or an array with one item
\* that is no pair
FxStoredCaches ==
  { << >>,
    << [symbol |-> "x"],
       [id |-> "JPY", symbol |-> "JPY", rate_to_eur |-> NoNumber,
        last_update |-> NoTime, change_pct |-> Num(0)] >> }

\* ticker.includes('=X') on the tickers of the lists
IncludesPairSuffix(ticker) == ticker \in {"EURUSD=X"}

\* (value || '').toUpperCase() on a code
UpperOrEmpty(code) == IF code = NoString THEN "" ELSE ToUpperCode(code)

\* (asset.type || '').toUpperCase() on the types of the lists
UpperType(type) ==
  CASE type = NoString -> ""
    [] type = "forex" -> "FOREX"
    [] type = "Currency" -> "CURRENCY"
    [] type = "Stock" -> "STOCK"
    [] OTHER -> type

isForexAsset(asset) ==
  \/ UpperType(asset.type) \in {"FOREX", "CURRENCY"}
  \/ IncludesPairSuffix(UpperOrEmpty(asset.ticker))

\* currencyPerformance.get(currency) || []
performancesOf(source, currency) ==
  With(SelectSeq(source, LAMBDA asset :
                   /\ UpperOrEmpty(asset.currency) = currency
                   /\ currency # ""
                   /\ ~IsNull(asset.perf_day_eur)),
       LAMBDA rows : [i \in 1..Len(rows) |-> RMul(rows[i].perf_day_eur, Num(100))])

\* avgChange / 100
changePct(perfs) ==
  With(perfs, LAMBDA list :
    LET sum[i \in 0..Len(list)] == IF i = 0 THEN Num(0) ELSE RAdd(sum[i - 1], list[i])
    IN  IF list = << >> THEN Num(0)
        ELSE RDiv(RDiv(sum[Len(list)], Num(Len(list))), Num(100)))

\* typedCurrencies.map(...)
resolvedFromTable(typedCurrencies, performanceSource) ==
  [i \in 1..Len(typedCurrencies) |->
     [id |-> typedCurrencies[i].id,
      symbol |-> typedCurrencies[i].symbol,
      rate_to_eur |-> typedCurrencies[i].rate_to_eur,
      last_update |-> typedCurrencies[i].last_update,
      change_pct |->
        changePct(performancesOf(performanceSource, ToUpperCode(typedCurrencies[i].id)))]]

\* the latest last_update, from typedCurrencies[0]?.last_update || now
latestUpdateOf(typedCurrencies) ==
  LET first == IF typedCurrencies[1].last_update = NoTime THEN Now
               ELSE typedCurrencies[1].last_update
      max[i \in 0..Len(typedCurrencies)] ==
        IF i = 0 THEN first
        ELSE IF typedCurrencies[i].last_update # NoTime
                /\ typedCurrencies[i].last_update > max[i - 1]
        THEN typedCurrencies[i].last_update
        ELSE max[i - 1]
  IN  max[Len(typedCurrencies)]

\* diffHours <= 24 ? 'LIVE' : 'STALE'
resolveFxState(lastUpdate) ==
  IF lastUpdate = NoTime THEN "STALE"
  ELSE IF lastUpdate >= Recently THEN "LIVE" ELSE "STALE"

\* the pairs of market_watch with a price, one per currency, sorted by id
inferredFromMarketWatch(forexAssets, performanceSource) ==
  LET usable == SelectSeq(forexAssets, LAMBDA asset :
                  /\ UpperOrEmpty(asset.currency) \notin {"", "EUR"}
                  /\ ~IsNull(asset.last_price)
                  /\ RLt(Num(0), asset.last_price))
      entryOf(asset) ==
        [id |-> ToUpperCode(asset.currency),
         symbol |-> ToUpperCode(asset.currency),
         rate_to_eur |-> asset.last_price,
         last_update |-> NoTime,
         change_pct |->
           changePct(performancesOf(performanceSource, ToUpperCode(asset.currency)))]
      byCurrency[i \in 0..Len(usable)] ==
        IF i = 0 THEN << >>
        ELSE Put(byCurrency[i - 1], ToUpperCode(usable[i].currency), entryOf(usable[i]))
      found == byCurrency[Len(usable)]
      ordered == SelectSeq(<<"CHF", "GBP", "USD">>, LAMBDA code : Has(found, code))
  IN  [i \in 1..Len(ordered) |-> Get(found, ordered[i])]

\* the items of the stored array that have a string id and a rate_to_eur
readFxCache(stored) ==
  SelectSeq(stored, LAMBDA item :
    {"id", "rate_to_eur"} \subseteq DOMAIN item)

\* the try block of fetchCurrencies
fetchedCurrencies(shown, stored, typedCurrencies, typedAssets) ==
  LET forexAssets == SelectSeq(typedAssets, isForexAsset)
      performanceSource == IF forexAssets # << >> THEN forexAssets ELSE typedAssets
  IN  IF typedCurrencies # << >>
      THEN LET resolved == resolvedFromTable(typedCurrencies, performanceSource)
           IN  [currencies |-> resolved,
                fxState |-> resolveFxState(latestUpdateOf(typedCurrencies)),
                cache |-> resolved]
      ELSE LET inferred == inferredFromMarketWatch(forexAssets, performanceSource)
               cached == readFxCache(stored)
           IN  IF inferred # << >>
               THEN [currencies |-> inferred, fxState |-> "STALE", cache |-> stored]
               ELSE IF cached # << >>
               THEN [currencies |-> cached, fxState |-> "CACHED", cache |-> stored]
               ELSE [currencies |-> << >>, fxState |-> "EMPTY", cache |-> stored]

\* the catch block of fetchCurrencies
failedCurrencies(shown, stored) ==
  LET cached == readFxCache(stored)
  IN  IF cached # << >>
      THEN [currencies |-> cached, fxState |-> "CACHED", cache |-> stored]
      ELSE [currencies |-> shown, fxState |-> "EMPTY", cache |-> stored]

\* the page mounted: useState([]), useState('EMPTY')
InitFx ==
  /\ LoadIdle
  /\ TrendIdle
  /\ DriftIdle
  /\ WidgetIdle
  /\ PanelIdle
  /\ GeoIdle
  /\ SeriesIdle
  /\ DashboardIdle
  /\ FallbackIdle
  /\ fxCurrencies = << >>
  /\ fxState = "EMPTY"
  /\ fxCache \in FxStoredCaches
  /\ fxPolls = 0

FxRest ==
  /\ UNCHANGED <<loadVars, trendVars, driftVars, widgetVars, panelVars, geoVars>>
  /\ UNCHANGED <<seriesVars, dashboardVars, fallbackVars>>

FxSet(result) ==
  /\ fxCurrencies' = result.currencies
  /\ fxState' = result.fxState
  /\ fxCache' = result.cache
  /\ fxPolls' = fxPolls + 1
  /\ FxRest

\* a poll whose two queries are answered
PollCurrencies(typedCurrencies, typedAssets) ==
  /\ fxPolls < MaxPolls
  /\ FxSet(fetchedCurrencies(fxCurrencies, fxCache, typedCurrencies, typedAssets))

\* a poll one of whose queries reports an error
PollFails ==
  /\ fxPolls < MaxPolls
  /\ FxSet(failedCurrencies(fxCurrencies, fxCache))

NextFx ==
  \/ \E typedCurrencies \in FxTables, typedAssets \in FxAssetLists :
       PollCurrencies(typedCurrencies, typedAssets)
  \/ PollFails

SpecFx == InitFx /\ [][NextFx]_vars

----------------------------------------------------------------------------
(* Vocabulary of the properties: the holdings of a loaded bundle and the   *)
(* position rows that contribute to each                                   *)

Loaded == pc = "loaded"

PortfolioKeys == Keys(assetsByPortfolio)
Holdings(key) == Get(assetsByPortfolio, key)

\* the positions passed to aggregateByTicker for a key of assetsByPortfolio
InScope(key) ==
  {i \in 1..Len(positions) : key = ALL \/ positions[i].portfolio_id = key}

\* the positions in scope whose ticker is that of the holding
Contributors(key, holding) ==
  {i \in InScope(key) : ToUpperText(positions[i].ticker) = holding.ticker}

\* the positions with a known PRU and a positive acquired quantity
WithCost(I) ==
  {i \in I : ~IsNull(positions[i].pru) /\ RLt(Num(0), positionQuantityBuy(positions[i]))}

WithTarget(I) == {i \in I : ~IsNull(positions[i].target_weight_pct)}

MarketOf(ticker) ==
  IF Has(marketByTicker, ticker) THEN Get(marketByTicker, ticker) ELSE NoMarket

\* the sum of term[i] over a set of indices, in any order
RECURSIVE SumOver(_, _)
SumOver(I, term) ==
  IF I = {} THEN Num(0)
  ELSE LET i == CHOOSE j \in I : TRUE
       IN  RAdd(term[i], SumOver(I \ {i}, term))

\* fxRate(position currency, else market currency, else EUR), 1 when unknown
RateOf(i, market) ==
  LET code == IF positions[i].currency # NoString THEN positions[i].currency
              ELSE IF market.currency # NoString THEN market.currency
              ELSE "EUR"
  IN  IF Has(rates, ToUpperCode(code)) THEN Get(rates, ToUpperCode(code)) ELSE Num(1)

PriceOf(market) == IF IsNull(market.last_price) THEN Num(0) ELSE market.last_price

\* valueInBase of each position: quantityCurrent x last_price x fxRate
ValueInBase(ticker) ==
  [i \in 1..Len(positions) |->
     RMul(RMul(positionQuantityCurrent(positions[i]), PriceOf(MarketOf(ticker))),
          RateOf(i, MarketOf(ticker)))]

\* a property of every holding under every key of a loaded bundle
EveryHolding(P(_, _)) ==
  Loaded =>
    \A key \in PortfolioKeys :
      \A n \in 1..Len(Holdings(key)) : P(key, Holdings(key)[n])

SomeHolding(P(_, _)) ==
  /\ Loaded
  /\ \E key \in PortfolioKeys :
       \E n \in 1..Len(Holdings(key)) : P(key, Holdings(key)[n])

----------------------------------------------------------------------------
(* C1 *)

C1_Conserved(key, holding) ==
  holding.market_value_eur =
    SumOver(Contributors(key, holding), ValueInBase(holding.ticker))

\* C1: the market value of every holding is exactly the sum, over the
\* positions in scope with its ticker, of quantityCurrent x last_price x fxRate;
\* every position in scope contributes to exactly one holding.
C1_Conservation ==
  /\ EveryHolding(C1_Conserved)
  /\ Loaded =>
       \A key \in PortfolioKeys : \A i \in InScope(key) :
         Cardinality({n \in 1..Len(Holdings(key)) :
                        i \in Contributors(key, Holdings(key)[n])}) = 1

C1_Mixed(key, holding) ==
  /\ RLt(Num(0), holding.market_value_eur)
  /\ \E i, j \in Contributors(key, holding) :
       /\ RateOf(i, MarketOf(holding.ticker)) # RateOf(j, MarketOf(holding.ticker))
       /\ RLt(Num(0), ValueInBase(holding.ticker)[i])
       /\ RLt(Num(0), ValueInBase(holding.ticker)[j])

\* two positions of one ticker, valued at different FX rates, both with value
C1_Witness == SomeHolding(C1_Mixed)

----------------------------------------------------------------------------
(* C2 *)

C2_IsPosition(position, portfolio, quantity, pru) ==
  /\ position.portfolio_id = portfolio
  /\ position.ticker = AAPL
  /\ position.currency = NoString
  /\ position.quantity_current = Num(quantity)
  /\ position.quantity_buy = Num(quantity)
  /\ position.pru = Num(pru)

\* portfolio A holds 10 AAPL at 150, portfolio B 5 at 170; AAPL quotes 180 USD
\* and one USD is 0.90 EUR
C2_Scenario ==
  /\ Loaded
  /\ Len(positions) = 2
  /\ \E i, j \in 1..2 :
       /\ C2_IsPosition(positions[i], PortfolioA, 10, 150)
       /\ C2_IsPosition(positions[j], PortfolioB, 5, 170)
  /\ MarketOf(AAPL).last_price = Num(180)
  /\ MarketOf(AAPL).currency = "USD"
  /\ \E n \in 1..Len(currencies) :
       /\ ToUpperCode(currencies[n].id) = "USD"
       /\ currencies[n].rate_to_eur = Rat(90, 100)

C2_Expected(holding) ==
  /\ holding.ticker = AAPL
  /\ holding.quantity = Num(15)
  /\ holding.pru = Rat(150 * 10 + 170 * 5, 15)
  /\ holding.market_value_eur = Num(2430)
  /\ holding.invested_value_eur = Num(2115)
  /\ holding.pnl_eur = Num(315)
  /\ RLt(Rat(1485, 100), holding.pnl_pct) /\ RLt(holding.pnl_pct, Rat(1495, 100))

\* C2: in the scenario, the ALL aggregation is one AAPL holding with quantity
\* 15, PRU (150x10+170x5)/15, market value 2430, invested value 2115, P&L 315
\* and a P&L percent of 14.9 to one decimal.
C2_ScenarioResult ==
  C2_Scenario => Len(Holdings(ALL)) = 1 /\ C2_Expected(Holdings(ALL)[1])

C2_Witness == C2_Scenario /\ Len(Holdings(ALL)) = 1

----------------------------------------------------------------------------
(* C3, C4, C5 *)

CostTerm == [i \in 1..Len(positions) |->
               IF IsNull(positions[i].pru) THEN Num(0)
               ELSE RMul(positions[i].pru, positionQuantityBuy(positions[i]))]

QuantityBuyTerm == [i \in 1..Len(positions) |-> positionQuantityBuy(positions[i])]

C3_Claimed(key, holding) ==
  LET costed == WithCost(Contributors(key, holding))
  IN  costed # {} =>
        /\ ~IsNull(holding.pru)
        /\ holding.pru = RDiv(SumOver(costed, CostTerm), SumOver(costed, QuantityBuyTerm))

\* C3: the average cost of a holding is sum(pru x quantityBuy) over
\* sum(quantityBuy), both over the positions with a known PRU and a positive
\* acquired quantity only.
C3_AverageCostOverCostedPositions == EveryHolding(C3_Claimed)

C4_Claimed(key, holding) ==
  LET costed == WithCost(Contributors(key, holding))
  IN  /\ IsNull(holding.pru) <=> costed = {}
      /\ IsNull(holding.invested_value_eur) <=> costed = {}

\* C4: average cost and invested value of a holding are null exactly when no
\* contributing position has a known PRU with a positive acquired quantity.
C4_CostAndInvestedNullTogether == EveryHolding(C4_Claimed)

InvestedTerm(ticker) ==
  [i \in 1..Len(positions) |->
     IF IsNull(positions[i].pru) THEN Num(0)
     ELSE RMul(RMul(positions[i].pru, positionQuantityBuy(positions[i])),
               RateOf(i, MarketOf(ticker)))]

C5_Invested(key, holding) ==
  LET costed == WithCost(Contributors(key, holding))
  IN  IF costed = {} THEN IsNull(holding.invested_value_eur)
      ELSE holding.invested_value_eur = SumOver(costed, InvestedTerm(holding.ticker))

\* C5: the invested value of a holding is sum(pru x quantityBuy x fxRate) over
\* the positions with a known PRU and a positive acquired quantity, each at its
\* own FX rate (null when there is no such position).
C5_InvestedValue == EveryHolding(C5_Invested)

C5_TwoRates(key, holding) ==
  \E i, j \in WithCost(Contributors(key, holding)) :
    /\ RateOf(i, MarketOf(holding.ticker)) # RateOf(j, MarketOf(holding.ticker))
    /\ RLt(Num(0), positions[i].pru) /\ RLt(Num(0), positions[j].pru)

\* a holding whose cost comes from two positions converted at different rates
C5_Witness == SomeHolding(C5_TwoRates)

----------------------------------------------------------------------------
(* C6 *)

TargetTerm(weight) ==
  [i \in 1..Len(positions) |->
     IF IsNull(positions[i].target_weight_pct) THEN Num(0)
     ELSE RMul(positions[i].target_weight_pct, weight[i])]

\* valueInBase when it is positive, else max(quantityCurrent, 1)
WeightWhenNotPositive(ticker) ==
  [i \in 1..Len(positions) |->
     IF RLt(Num(0), ValueInBase(ticker)[i]) THEN ValueInBase(ticker)[i]
     ELSE RMax(positionQuantityCurrent(positions[i]), Num(1))]

\* valueInBase, or max(quantityCurrent, 1) when it is zero
WeightWhenZero(ticker) ==
  [i \in 1..Len(positions) |->
     IF ValueInBase(ticker)[i] = Num(0)
     THEN RMax(positionQuantityCurrent(positions[i]), Num(1))
     ELSE ValueInBase(ticker)[i]]

\* the target weight is the mean of the targets under the given weights
IsWeightedMean(key, holding, weight) ==
  LET targeted == WithTarget(Contributors(key, holding))
  IN  IF targeted = {} THEN IsNull(holding.target_weight_pct)
      ELSE /\ ~IsNull(holding.target_weight_pct)
           /\ RMul(holding.target_weight_pct, SumOver(targeted, weight))
                = SumOver(targeted, TargetTerm(weight))

C6_Amended(key, holding) ==
  IsWeightedMean(key, holding, WeightWhenNotPositive(holding.ticker))

C6_Original(key, holding) ==
  IsWeightedMean(key, holding, WeightWhenZero(holding.ticker))

\* C6 (amended): the target weight of a holding is the weighted mean of the
\* target weights of the positions that specify one, each weighted by its
\* valueInBase when that value is positive and by max(quantityCurrent, 1)
\* otherwise; it is null exactly when no contributing position specifies one.
C6_TargetWeight == EveryHolding(C6_Amended)

\* C6 (as claimed): ... weighted by valueInBase, or by max(quantityCurrent, 1)
\* when the value is zero.
C6_TargetWeightAsClaimed == EveryHolding(C6_Original)

C6_Mixed(key, holding) ==
  \E i, j \in WithTarget(Contributors(key, holding)) :
    /\ positions[i].target_weight_pct # positions[j].target_weight_pct
    /\ RLt(ValueInBase(holding.ticker)[i], Num(0))

\* two targets of one ticker, one position with a negative value
C6_Witness == SomeHolding(C6_Mixed)

----------------------------------------------------------------------------
(* C7 *)

C7_ProfitAndLoss(key, holding) ==
  LET invested == holding.invested_value_eur
      value == holding.market_value_eur
  IN  /\ IsNull(holding.pnl_eur) <=> IsNull(invested)
      /\ ~IsNull(invested) => holding.pnl_eur = RSub(value, invested)
      /\ IsNull(holding.pnl_pct) <=> (IsNull(invested) \/ ~RLt(Num(0), invested))
      /\ (~IsNull(invested) /\ RLt(Num(0), invested)) =>
           RMul(RAdd(holding.pnl_pct, Num(100)), invested) = RMul(value, Num(100))

\* C7: pnl_eur is market value minus invested value and is null exactly when
\* the invested value is null; pnl_pct is (market value / invested value - 1)
\* x 100 and is null exactly when the invested value is null or not positive.
C7_PnL == EveryHolding(C7_ProfitAndLoss)

C7_Gain(key, holding) ==
  /\ ~IsNull(holding.invested_value_eur)
  /\ RLt(Num(0), holding.invested_value_eur)
  /\ RLt(Num(0), holding.pnl_eur)

C7_ZeroCost(key, holding) ==
  /\ ~IsNull(holding.invested_value_eur)
  /\ holding.invested_value_eur = Num(0)

\* one holding with a gain on a positive cost, another with a known cost of zero
C7_Witness == SomeHolding(C7_Gain) /\ SomeHolding(C7_ZeroCost)

----------------------------------------------------------------------------
(* C8 *)

\* the ticker and the portfolio a position row stands for
RowTicker(row) == ToUpperText(readText(row.ticker))
RowPortfolio(row) ==
  IF readText(row.portfolio_id) = NoText THEN DEFAULT_PORTFOLIO_ID
  ELSE readText(row.portfolio_id)

RowsInScope(key) ==
  {i \in 1..Len(positionRows) :
     /\ RowTicker(positionRows[i]) # NoText
     /\ key = ALL \/ RowPortfolio(positionRows[i]) = key}

HasMarketRecord(ticker) ==
  \E j \in 1..Len(marketRows) : ToUpperText(marketRows[j].ticker) = ticker

HoldingsOfTicker(key, ticker) ==
  {n \in 1..Len(Holdings(key)) : Holdings(key)[n].ticker = ticker}

C8_Unpriced(key, holding) ==
  ~HasMarketRecord(holding.ticker) =>
    holding.price = Num(0) /\ holding.market_value_eur = Num(0)

\* C8: every ticker, compared without case, of a position row in scope has
\* exactly one holding; without matching market record the holding is there
\* with price 0 and market value 0.
C8_UnpricedButHeld ==
  /\ Loaded =>
       \A key \in PortfolioKeys : \A i \in RowsInScope(key) :
         Cardinality(HoldingsOfTicker(key, RowTicker(positionRows[i]))) = 1
  /\ EveryHolding(C8_Unpriced)

\* two rows whose tickers differ by case only, held without market record
C8_Witness ==
  /\ Loaded
  /\ \E i, j \in RowsInScope(ALL) :
       /\ positionRows[i].ticker # positionRows[j].ticker
       /\ RowTicker(positionRows[i]) = RowTicker(positionRows[j])
       /\ ~HasMarketRecord(RowTicker(positionRows[i]))
       /\ Cardinality(HoldingsOfTicker(ALL, RowTicker(positionRows[i]))) = 1

----------------------------------------------------------------------------
(* C9 *)

Entries(m) == {m[i] : i \in 1..Len(m)}

PositiveKeys(coverage) ==
  {ToUpperCode(coverage.e[i].k) : i \in {j \in 1..Len(coverage.e) : RLt(Num(0), coverage.e[j].v)}}

C9_SumsTo100(coverage, ticker) ==
  LET normalized == normalizeCoveragePercentages(coverage, ticker)
  IN  PositiveKeys(coverage) # {} =>
        /\ Keys(normalized) = PositiveKeys(coverage)
        /\ \A i \in 1..Len(normalized) : RLt(Num(0), normalized[i].v)
        /\ SumValues(normalized) = Num(100)

\* the coverage maps the load hands to normalizeCoveragePercentages
SuppliedCoverages ==
  {<<positions[i].geo_coverage, positions[i].ticker>> : i \in 1..Len(positions)}
  \cup {<<marketByTicker[j].v.geo_coverage, marketByTicker[j].k>> :
          j \in 1..Len(marketByTicker)}

\* C9: for a coverage map with a positive weight, normalizeCoveragePercentages
\* returns the positive entries only, as percentages that sum to 100, for
\* fractions and for percentages; {US: 0.7, JP: 0.3} gives {US: 70, JP: 30}.
C9_CoverageSumsTo100 ==
  /\ Loaded =>
       \A c \in SuppliedCoverages : ~c[1].null => C9_SumsTo100(c[1], c[2])
  /\ Entries(normalizeCoveragePercentages(FractionsCoverage, AAPL))
       = {[k |-> "US", v |-> Num(70)], [k |-> "JP", v |-> Num(30)]}

----------------------------------------------------------------------------
(* C10 *)

\* the contributing positions that supply a coverage map of their own
WithCoverage(I) == {i \in I : ~positions[i].geo_coverage.null}

\* valueInBase x weight / 100 of the normalized coverage of each position
CountryTerm(ticker, country) ==
  [i \in 1..Len(positions) |->
     LET own == normalizeCoveragePercentages(positions[i].geo_coverage, ticker)
     IN  IF Has(own, country)
         THEN RMul(ValueInBase(ticker)[i], RDiv(Get(own, country), Num(100)))
         ELSE Num(0)]

\* the countries of the normalized coverage maps of a set of positions
Countries(ticker, I) ==
  UNION {Keys(normalizeCoveragePercentages(positions[i].geo_coverage, ticker)) : i \in I}

\* the per-country accumulator over a set of positions
Accumulated(ticker, I) ==
  [country \in Countries(ticker, I) |-> SumOver(I, CountryTerm(ticker, country))]

C10_Shares(holding, I) ==
  LET accumulated == Accumulated(holding.ticker, I)
      total == SumOver(DOMAIN accumulated, accumulated)
  IN  RLt(Num(0), total) =>
        /\ Keys(holding.constituents) = DOMAIN accumulated
        /\ \A n \in 1..Len(holding.constituents) :
             RMul(holding.constituents[n].v, total)
               = RMul(Num(100), accumulated[holding.constituents[n].k])

C10_Claimed(key, holding) ==
  LET contributors == Contributors(key, holding)
  IN  IF WithCoverage(contributors) = {}
      THEN Entries(holding.constituents)
             = Entries(normalizeCoveragePercentages(MarketOf(holding.ticker).geo_coverage,
                                                    holding.ticker))
      ELSE C10_Shares(holding, contributors)

\* the shares of the accumulated exposure, whoever supplied the coverage
C10_SharesOfExposure(key, holding) == C10_Shares(holding, Contributors(key, holding))

\* C10: the country weights of a holding are the shares of the per-country sums
\* of valueInBase x weight/100 over the normalized coverage maps of its
\* positions; when no contributing position supplies a coverage map, they are
\* the coverage map of the matching market record, normalized the same way.
C10_CountryWeights == EveryHolding(C10_Claimed)

----------------------------------------------------------------------------
(* C11 *)

\* the rows of currencies that list a code, whatever its case, with a rate
Listing(code) ==
  {n \in 1..Len(currencies) :
     /\ ToUpperCode(currencies[n].id) = ToUpperCode(code)
     /\ ~IsNull(currencies[n].rate_to_eur)}

IsCode(code) == code # NoString /\ code # ""

Max(S) == CHOOSE n \in S : \A m \in S : m <= n

\* C11: the lookup of a currency gives the rate of the last row that lists
\* its code with a finite rate, whatever the case of either; a code that no
\* row lists, or no code at all, gives 1, and so does EUR unless a row lists
\* EUR itself.
C11_RateTable ==
  Loaded =>
    \A code \in CurrencyCodes :
      IF IsCode(code) /\ Listing(code) # {}
      THEN getRateToEur(code, rates) = currencies[Max(Listing(code))].rate_to_eur
      ELSE getRateToEur(code, rates) = Num(1)

\* C11 (as claimed): EUR gives 1 for any list of rows, a listed currency
\* gives the rate of its row, an unknown or absent currency gives 1.
C11_RateTableAsClaimed ==
  Loaded =>
    /\ getRateToEur("EUR", rates) = Num(1)
    /\ getRateToEur("eur", rates) = Num(1)
    /\ \A n \in 1..Len(currencies) :
         (~IsNull(currencies[n].rate_to_eur) /\ ToUpperCode(currencies[n].id) # "EUR")
           => \A code \in CurrencyCodes :
                (IsCode(code) /\ ToUpperCode(code) = ToUpperCode(currencies[n].id))
                  => getRateToEur(code, rates) = currencies[n].rate_to_eur
    /\ \A code \in CurrencyCodes :
         (~IsCode(code) \/ (Listing(code) = {} /\ ToUpperCode(code) # "EUR"))
           => getRateToEur(code, rates) = Num(1)

\* a table with a listed rate read in the other case, a row for EUR, and a
\* code without finite rate
C11_Witness ==
  /\ Loaded
  /\ Listing("EUR") # {}
  /\ \E n \in 1..Len(currencies) : currencies[n].id = "usd" /\ Listing("USD") = {n}
  /\ getRateToEur("USD", rates) = Rat(9, 10)
  /\ getRateToEur("CHF", rates) = Num(1)

----------------------------------------------------------------------------
(* C12 *)

\* a raw value that is a number, or a string that starts as a decimal literal
StartsNumber(t) ==
  \/ t # << >> /\ IsDigit(t[1])
  \/ Len(t) >= 2 /\ t[1] = "." /\ IsDigit(t[2])

IsNumeric(value) ==
  IF IsText(value)
  THEN LET t == TrimLeft(replaceComma(value.text))
       IN  \/ StartsNumber(t)
           \/ t # << >> /\ t[1] \in {"-", "+"} /\ StartsNumber(Tail(t))
  ELSE ~IsNull(value)

IsString(value) == value # NoString /\ value # ""
IsNonBlank(value) == TrimLeft(value) # << >>

C12_Number(raw, parsed) == ~IsNumeric(raw) => IsNull(parsed)
C12_String(raw, parsed) == ~IsString(raw) => parsed = NoString
C12_Chars(raw, parsed) == ~IsNonBlank(raw) => parsed = NoText

C12_Position(raw, parsed) ==
  /\ C12_Chars(raw.portfolio_id, parsed.portfolio_id)
  /\ C12_Chars(raw.name, parsed.name)
  /\ C12_String(raw.instrument_type, parsed.instrument_type)
  /\ C12_String(raw.currency, parsed.currency)
  /\ C12_Number(raw.quantity_buy, parsed.quantity_buy)
  /\ C12_Number(raw.quantity_current, parsed.quantity_current)
  /\ C12_Number(raw.pru, parsed.pru)
  /\ C12_Number(raw.target_weight_pct, parsed.target_weight_pct)

C12_Market(raw, parsed) ==
  /\ C12_Chars(raw.ticker, parsed.ticker)
  /\ C12_Chars(raw.name, parsed.name)
  /\ C12_Chars(raw.portfolio_id, parsed.portfolio_id)
  /\ C12_String(raw.currency, parsed.currency)
  /\ C12_String(raw.type, parsed.type)
  /\ C12_String(raw.asset_class, parsed.asset_class)
  /\ raw.trend_state \notin TrendStates => parsed.trend_state = NoString
  /\ raw.trend_changed \notin {"true", "TRUE", "True", "false", "FALSE", "False"}
       => parsed.trend_changed = NoBoolean
  /\ \A field \in {"last_price", "quantity", "quantity_buy", "pru", "target_weight_pct",
                   "perf_day_eur", "perf_day_local", "perf_week_local",
                   "perf_month_local", "perf_ytd_eur", "rsi_14", "macd_line",
                   "macd_signal", "momentum_20"} :
       C12_Number(raw[field], parsed[field])

C12_Portfolio(raw, parsed) == C12_Chars(raw.name, parsed.name)

\* C12: every field of a parsed market, position or portfolio row is null when
\* the raw value is absent or cannot be coerced; no parser puts a default or
\* the value of another field in its place.
C12_NeverDefaults ==
  Loaded =>
    /\ \A i \in 1..Len(marketRows) :
         C12_Market(marketRows[i], parseMarketWatchRow(marketRows[i]))
    /\ \A i \in 1..Len(positionRows) :
         IsPosition(parsePositionRow(positionRows[i]))
           => C12_Position(positionRows[i], parsePositionRow(positionRows[i]))
    /\ \A i \in 1..Len(portfolioRows) :
         IsPortfolio(parsePortfolioRow(portfolioRows[i]))
           => C12_Portfolio(portfolioRows[i], parsePortfolioRow(portfolioRows[i]))

\* the part of C12 that holds: the market rows
C12_MarketRowsNeverDefault ==
  Loaded =>
    \A i \in 1..Len(marketRows) :
      C12_Market(marketRows[i], parseMarketWatchRow(marketRows[i]))

----------------------------------------------------------------------------
(* C13, C14 *)

Resolved == trendState # NoString

AllDefined ==
  /\ ~IsNull(indicators.macdLine)
  /\ ~IsNull(indicators.macdSignal)
  /\ ~IsNull(indicators.rsi14)
  /\ ~IsNull(indicators.momentum20)

\* C13: resolveTrendState returns UNKNOWN, and never NEUTRAL, whenever one of
\* its four inputs is undefined.
C13_UnknownOnMissingInput ==
  Resolved /\ ~AllDefined => trendState = "UNKNOWN"

Bullish ==
  /\ RLt(indicators.macdSignal, indicators.macdLine)
  /\ RLe(Num(60), indicators.rsi14)
  /\ RLt(Num(0), indicators.momentum20)

Bearish ==
  /\ RLt(indicators.macdLine, indicators.macdSignal)
  /\ RLt(indicators.rsi14, Num(40))
  /\ RLt(indicators.momentum20, Num(0))

\* C14: with all four inputs defined, the state is BULLISH exactly when
\* MACD line > signal, RSI >= 60 and momentum > 0, BEARISH exactly when
\* MACD line < signal, RSI < 40 and momentum < 0, and NEUTRAL in every other
\* case.
C14_TrendStateTotality ==
  Resolved /\ AllDefined =>
    /\ trendState \in {"BULLISH", "BEARISH", "NEUTRAL"}
    /\ trendState = "BULLISH" <=> Bullish
    /\ trendState = "BEARISH" <=> Bearish
    /\ trendState = "NEUTRAL" <=> ~Bullish /\ ~Bearish

\* all inputs defined, RSI exactly at the bullish threshold, state BULLISH
C14_Witness ==
  /\ Resolved
  /\ AllDefined
  /\ indicators.rsi14 = Num(60)
  /\ trendState = "BULLISH"

----------------------------------------------------------------------------
(* C16 *)

AbsDrift == RAbs(driftArgs.drift)
HalfBand == RDiv(driftArgs.toleranceBand, Num(2))

C16_Status(status) ==
  /\ status = "OK" <=> RLe(AbsDrift, HalfBand)
  /\ status = "WARNING" <=> RLt(HalfBand, AbsDrift) /\ RLe(AbsDrift, driftArgs.toleranceBand)
  /\ status = "BREACH" <=> RLt(driftArgs.toleranceBand, AbsDrift)

C16_Example(status) ==
  driftArgs.toleranceBand = Num(4) =>
    /\ AbsDrift = Rat(19, 10) => status = "OK"
    /\ AbsDrift = Rat(21, 10) => status = "WARNING"
    /\ AbsDrift = Rat(41, 10) => status = "BREACH"

----------------------------------------------------------------------------
(* C17, C18, C19 *)

Rendered == ~governance.none

\* market value in EUR of the holdings of a class, and of all holdings
MarketValueEur(asset) == Coalesce(asset.market_value_eur, Num(0))

ClassMarketValue(class) ==
  LET sum[i \in 0..Len(assets)] ==
        IF i = 0 THEN Num(0)
        ELSE IF assetClassOf(assets[i]) = class
             THEN RAdd(sum[i - 1], MarketValueEur(assets[i]))
             ELSE sum[i - 1]
  IN  sum[Len(assets)]

TotalMarketValue ==
  LET sum[i \in 0..Len(assets)] ==
        IF i = 0 THEN Num(0) ELSE RAdd(sum[i - 1], MarketValueEur(assets[i]))
  IN  sum[Len(assets)]

SharePct(class) == RMul(RDiv(ClassMarketValue(class), TotalMarketValue), Num(100))

EntriesOf(class) ==
  {i \in 1..Len(governance.allocationData) :
     governance.allocationData[i].asset_class = class}

\* C17: the current percent of each targeted class is the summed market value
\* in EUR of the holdings of the class over the total market value of the
\* portfolio, times 100, and the drift is the current percent minus the
\* target percent.
C17_CurrentPercentAndDrift ==
  Rendered /\ RLt(Num(0), TotalMarketValue) =>
    \A k \in 1..Len(targets) :
      \E i \in EntriesOf(normalizedClass(targets[k])) :
        /\ governance.allocationData[i].target_pct = targets[k].target_pct
        /\ governance.allocationData[i].current_pct = SharePct(normalizedClass(targets[k]))
        /\ governance.allocationData[i].drift =
             RSub(SharePct(normalizedClass(targets[k])), targets[k].target_pct)

\* the same with the value the widget gives a holding: price x quantity in
\* the quote currency, a quantity of 0 counted as 1
C17_PercentOfQuotedValue ==
  Rendered /\ governance.allocationData # << >> =>
    \A k \in 1..Len(targets) :
      \E i \in EntriesOf(normalizedClass(targets[k])) :
        /\ governance.allocationData[i].current_pct =
             pctOf(GetOrZero(allocationByClassOf(assets), normalizedClass(targets[k])),
                   totalValueOf(assets))
        /\ governance.allocationData[i].drift =
             RSub(governance.allocationData[i].current_pct, targets[k].target_pct)

Unclassified == {i \in 1..Len(assets) : normalizeAssetClass(assets[i].asset_class) = NoString}

\* C18: the holdings without asset class are pooled into one UNKNOWN entry,
\* which is BREACH, with the portfolio in breach, exactly when their share of
\* the total value is above 10 %, whatever the targets.
C18_UnknownBucket ==
  Rendered /\ RLt(Num(0), ClassMarketValue("UNKNOWN")) =>
    /\ Cardinality(EntriesOf("UNKNOWN")) = 1
    /\ \A i \in EntriesOf("UNKNOWN") :
         /\ governance.allocationData[i].drift_status = "BREACH"
              <=> RLt(Num(10), SharePct("UNKNOWN"))
         /\ RLt(Num(10), SharePct("UNKNOWN")) => governance.hasBreach

\* the same with the share the widget computes
C18_UnknownBucketOfQuotedValue ==
  Rendered /\ RLt(Num(0), GetOrZero(allocationByClassOf(assets), "UNKNOWN")) =>
    /\ Cardinality(EntriesOf("UNKNOWN")) = 1
    /\ \A i \in EntriesOf("UNKNOWN") :
         /\ governance.allocationData[i].drift_status = "BREACH"
              <=> RLt(Num(10), governance.unknownPct)
         /\ RLt(Num(10), governance.unknownPct) => governance.hasBreach
         /\ governance.unknownPct =
              pctOf(GetOrZero(allocationByClassOf(assets), "UNKNOWN"), totalValueOf(assets))

TargetSum ==
  LET sum[i \in 0..Len(targets)] ==
        IF i = 0 THEN Num(0) ELSE RAdd(sum[i - 1], targets[i].target_pct)
  IN  sum[Len(targets)]

\* C19: the target-total warning is raised exactly when targets are configured
\* and their sum is more than 0.1 away from 100, whatever the holdings, an
\* empty or zero-valued set included.
C19_TargetTotalWarning ==
  Rendered =>
    (governance.configurationError
       <=> Len(targets) > 0 /\ RLt(Rat(1, 10), RAbs(RSub(TargetSum, Num(100)))))

\* the same for holdings of non-zero value
C19_WarningWithValuedHoldings ==
  Rendered /\ assets # << >> /\ totalValueOf(assets) # Num(0) =>
    (governance.configurationError
       <=> Len(targets) > 0 /\ RLt(Rat(1, 10), RAbs(RSub(TargetSum, Num(100)))))

----------------------------------------------------------------------------
(* C15 *)

Fetched == ~panelLoading

\* the four indicators of point i are defined
FullyDefined(i) ==
  /\ ~IsNull(points[i].macd)
  /\ ~IsNull(points[i].signal)
  /\ ~IsNull(points[i].rsi)
  /\ ~IsNull(points[i].momentum)

\* C15: the flag of point i is true exactly when the states of i and of i-1
\* both come from fully defined indicators and differ; it is false at the
\* first point and whenever one of the two states rests on an undefined
\* indicator.
C15_TrendChanged ==
  Fetched =>
    \A i \in 1..Len(points) :
      points[i].trendChanged
        <=> /\ i > 1
            /\ FullyDefined(i)
            /\ FullyDefined(i - 1)
            /\ points[i].trendState # points[i - 1].trendState

\* what the panel computes: the states of i and i-1 differ, defined or not
C15_TrendChangedAsComputed ==
  Fetched =>
    \A i \in 1..Len(points) :
      points[i].trendChanged
        <=> i > 1 /\ points[i].trendState # points[i - 1].trendState

----------------------------------------------------------------------------
(* C20 *)

----------------------------------------------------------------------------
(* C21 *)

\* the gains and losses of the changes of indexes from..to of the source
RECURSIVE SumGains(_, _, _)
SumGains(values, from, to) ==
  IF from > to THEN Num(0)
  ELSE LET change == RSub(values[to + 1], values[to])
       IN  RAdd(SumGains(values, from, to - 1), RMax(change, Num(0)))

RECURSIVE SumLosses(_, _, _)
SumLosses(values, from, to) ==
  IF from > to THEN Num(0)
  ELSE LET change == RSub(values[to], values[to + 1])
       IN  RAdd(SumLosses(values, from, to - 1), RMax(change, Num(0)))

\* Wilder's average loss at an index of the source, index >= period
RECURSIVE WilderLoss(_, _, _)
WilderLoss(values, period, index) ==
  IF index = period THEN RDiv(SumLosses(values, 1, period), Num(period))
  ELSE RDiv(RAdd(RMul(WilderLoss(values, period, index - 1), Num(period - 1)),
                 SumLosses(values, index, index)),
            Num(period))

RsiCalled == rsiResult.called

\* C21: calculateRSI gives, at every index, null or a value within 0..100;
\* null at every index below the period; exactly 100 whenever the average
\* loss is zero
C21_RsiBounds ==
  RsiCalled =>
    /\ Len(rsiResult.value) = Len(priceSeries)
    /\ \A i \in 1..Len(priceSeries) :
         LET rsi == rsiResult.value[i]
         IN  /\ IsNull(rsi) \/ (RLe(Num(0), rsi) /\ RLe(rsi, Num(100)))
             /\ i - 1 < periods.period => IsNull(rsi)
             /\ (periods.period > 1 /\ i - 1 >= periods.period
                   /\ WilderLoss(priceSeries, periods.period, i - 1) = Num(0))
                  => rsi = Num(100)

\* a series with a rise only after the seed window, and one with a fall in it
C21_Witness ==
  /\ RsiCalled
  /\ periods.period = 2
  /\ Len(priceSeries) = 5
  /\ rsiResult.value[3] = Num(100)
  /\ ~IsNull(rsiResult.value[5])
  /\ RLt(Num(0), rsiResult.value[5])
  /\ RLt(rsiResult.value[5], Num(100))

----------------------------------------------------------------------------
(* C22 *)

\* the recurrence at an index of the source, seeded with the first value
RECURSIVE EmaAt(_, _, _)
EmaAt(values, period, index) ==
  IF index = 0 THEN values[1]
  ELSE LET before == EmaAt(values, period, index - 1)
       IN  RAdd(RMul(RSub(values[index + 1], before), Rat(2, period + 1)), before)

EmaCalled == emaResult.called

\* C22: calculateEMA gives null at every index below period - 1, hence at
\* every index of a series shorter than the period, and from index period - 1
\* on the value of ema = (value - ema) x 2/(period + 1) + ema seeded with the
\* first value
C22_EmaWarmUp ==
  EmaCalled =>
    /\ Len(emaResult.value) = Len(priceSeries)
    /\ Len(priceSeries) < periods.period =>
         \A i \in 1..Len(priceSeries) : IsNull(emaResult.value[i])
    /\ \A i \in 1..Len(priceSeries) :
         IF i - 1 < periods.period - 1 THEN IsNull(emaResult.value[i])
         ELSE emaResult.value[i] = EmaAt(priceSeries, periods.period, i - 1)

\* a series longer than the period whose average has moved off its values
C22_Witness ==
  /\ EmaCalled
  /\ periods.period = 3
  /\ Len(priceSeries) = 5
  /\ IsNull(emaResult.value[2])
  /\ ~IsNull(emaResult.value[3])
  /\ emaResult.value[3] # priceSeries[3]
  /\ emaResult.value[5] # emaResult.value[4]

----------------------------------------------------------------------------
(* C23 *)

MacdCalled == macdResult.called

\* an index of the source at which EMA(period) is not defined yet
EmaUndefinedAt(period, index) == index < period - 1

\* C23: the signal and the histogram of calculateMACD are null at every index
\* below long + signal - 2, the MACD line is null wherever one of the two
\* source EMAs is undefined, and a histogram value that is not null is the
\* MACD line minus the signal
C23_MacdWarmUp ==
  MacdCalled =>
    \A i \in 1..Len(priceSeries) :
      LET macd == macdResult.value.macdLine[i]
          signal == macdResult.value.signalLine[i]
          hist == macdResult.value.histogram[i]
      IN  /\ i - 1 < periods.longPeriod + periods.signalPeriod - 2 =>
               IsNull(signal) /\ IsNull(hist)
          /\ (EmaUndefinedAt(periods.shortPeriod, i - 1)
                \/ EmaUndefinedAt(periods.longPeriod, i - 1)) => IsNull(macd)
          /\ ~IsNull(hist) => hist = RSub(macd, signal)

\* a MACD line defined one index before the signal is exposed, then a
\* histogram that is not zero
C23_Witness ==
  /\ MacdCalled
  /\ periods.longPeriod = 3
  /\ periods.signalPeriod = 2
  /\ Len(priceSeries) = 5
  /\ ~IsNull(macdResult.value.macdLine[3])
  /\ IsNull(macdResult.value.signalLine[3])
  /\ ~IsNull(macdResult.value.histogram[4])
  /\ macdResult.value.histogram[4] # Num(0)

----------------------------------------------------------------------------
(* C24, C25 *)

\* the holdings the page was built from
PageHoldings == selectedAssets(assetsByPortfolio, geographic.selectedPortfolioId)

PageShown == ~geographic.none

\* the sum of a list of numbers
RECURSIVE SumAll(_)
SumAll(list) ==
  IF list = << >> THEN Num(0) ELSE RAdd(Head(list), SumAll(Tail(list)))

\* C24: the countries come in non-increasing order of total exposure, the
\* exposure percentage of each is its total exposure over the grand total of
\* all countries times 100, the percentages of a non-empty list sum to 100,
\* and the regions are the same countries in the same order with that
\* percentage, within 0..100, as value
C24_GeographicExposure ==
  PageShown =>
    LET countries == geographic.countries
        regions == geographic.regions
        grandTotal == SumAll([i \in 1..Len(countries) |-> countries[i].totalExposure])
    IN  /\ \A i \in 1..(Len(countries) - 1) :
             RLe(countries[i + 1].totalExposure, countries[i].totalExposure)
        /\ \A i \in 1..Len(countries) :
             countries[i].exposurePct
               = RMul(RDiv(countries[i].totalExposure, grandTotal), Num(100))
        /\ countries # << >> => SumAll([i \in 1..Len(countries) |-> countries[i].exposurePct]) = Num(100)
        /\ Len(regions) = Len(countries)
        /\ \A i \in 1..Len(regions) :
             /\ regions[i].code = countries[i].code
             /\ regions[i].value = countries[i].exposurePct
             /\ RLe(Num(0), regions[i].value)
             /\ RLe(regions[i].value, Num(100))

\* three countries of different exposure
C24_Witness ==
  /\ PageShown
  /\ Len(geographic.countries) = 3
  /\ RLt(geographic.countries[2].totalExposure, geographic.countries[1].totalExposure)
  /\ RLt(geographic.countries[3].totalExposure, geographic.countries[2].totalExposure)
  /\ Len(geographic.regions) = 3

\* the normalized country weights of a holding, in percent
WeightsOf(holding) ==
  normalizeCoveragePercentages(Coverage(holding.constituents), holding.ticker)

\* holdingValue x weight / 100 of a holding of positive value in a country
Contribution(holding, code) ==
  IF RLt(Num(0), holding.market_value_eur) /\ Has(WeightsOf(holding), code)
  THEN RMul(holding.market_value_eur, RDiv(Get(WeightsOf(holding), code), Num(100)))
  ELSE Num(0)

CountryContributors(code) ==
  {i \in 1..Len(PageHoldings) : Contribution(PageHoldings[i], code) # Num(0)}

HorizonValue(holding, horizon) ==
  IF horizon = "day" THEN holding.performance.day.value
  ELSE IF horizon = "month" THEN holding.performance.month.value
  ELSE holding.performance.ytd.value

ReportedPerformance(country, horizon) ==
  IF horizon = "day" THEN country.performanceDay
  ELSE IF horizon = "month" THEN country.performanceMonth
  ELSE country.performanceYtd

\* sum of horizonPerformance x (holdingValue x weight / 100) over the holdings
WeightedPerformance(code, horizon) ==
  SumAll([i \in 1..Len(PageHoldings) |->
            RMul(HorizonValue(PageHoldings[i], horizon),
                 Contribution(PageHoldings[i], code))])

CountryCodes == {geographic.countries[i].code : i \in 1..Len(geographic.countries)}

\* C25: for each country and each horizon the reported performance is the sum
\* over the contributing holdings of horizonPerformance x (holdingValue x
\* weight / 100) divided by the total exposure of the country; a holding of
\* non-positive exposure contributes to no country; avgPerformance is the
\* performance of the requested horizon
C25_WeightedPerformance ==
  PageShown =>
    /\ \A i \in 1..Len(geographic.countries) :
         LET country == geographic.countries[i]
         IN  /\ country.totalExposure
                  = SumAll([j \in 1..Len(PageHoldings) |->
                              Contribution(PageHoldings[j], country.code)])
             /\ country.assetCount = Cardinality(CountryContributors(country.code))
             /\ \A horizon \in Timeframes :
                  ReportedPerformance(country, horizon)
                    = RDiv(WeightedPerformance(country.code, horizon),
                           country.totalExposure)
             /\ country.avgPerformance
                  = ReportedPerformance(country, geographic.timeframe)
    /\ \A j \in 1..Len(PageHoldings) :
         \A code \in Keys(WeightsOf(PageHoldings[j])) :
           IF RLt(Num(0), PageHoldings[j].market_value_eur)
           THEN code \in CountryCodes
           ELSE j \notin CountryContributors(code)

\* a country fed by two holdings of different performance, beside a holding
\* without value that lists a country
C25_Witness ==
  /\ PageShown
  /\ \E code \in CountryCodes :
       \E i, j \in CountryContributors(code) :
         HorizonValue(PageHoldings[i], geographic.timeframe)
           # HorizonValue(PageHoldings[j], geographic.timeframe)
  /\ \E j \in 1..Len(PageHoldings) :
       /\ ~RLt(Num(0), PageHoldings[j].market_value_eur)
       /\ WeightsOf(PageHoldings[j]) # << >>

----------------------------------------------------------------------------
(* C26 *)

\* a fetch that ends in this step
Completes(fetch) == fetch \in inflight /\ fetch \notin inflight'

\* C26: a fetch started under one selection that completes after the
\* selection has changed is not applied: it overwrites neither the holdings,
\* nor the coverage percentage, nor the selected portfolio id
C26_SupersededDiscarded ==
  [][\A fetch \in inflight :
       (Completes(fetch) /\ fetch.under # selectedPortfolioId) =>
         /\ shownBundle' = shownBundle
         /\ coveragePct' = coveragePct
         /\ selectedPortfolioId' = selectedPortfolioId]_vars

----------------------------------------------------------------------------
(* C27 *)

\* the queries answered without error
Resolved27 == {i \in 1..Len(queryLog) : queryLog[i].answer = "data"}

\* C27: the candidates are queried strictly in list order, no query follows
\* one that reported no error, the rows returned are those of that first
\* candidate, and when every candidate fails the empty list is returned
C27_FallbackOrder ==
  /\ Len(queryLog) <= Len(selectors)
  /\ \A i \in 1..Len(queryLog) : queryLog[i].selector = i
  /\ \A i \in 1..(Len(queryLog) - 1) : queryLog[i].answer = "error"
  /\ fallback.pc = "returned" =>
       IF Resolved27 # {}
       THEN fallback.rows = queryLog[Len(queryLog)].data.rows
       ELSE /\ Len(queryLog) = Len(selectors)
            /\ fallback.rows = << >>

\* the third candidate resolved after two that failed
C27_Witness ==
  /\ fallback.pc = "returned"
  /\ Len(queryLog) = 3
  /\ queryLog[1].answer = "error"
  /\ queryLog[2].answer = "error"
  /\ queryLog[3].answer = "data"
  /\ fallback.rows = selectRows(tableColumns, {"id"})

----------------------------------------------------------------------------
(* C28 *)

\* C28: after every completed poll the state is EMPTY exactly when the list
\* shown is empty, and CACHED exactly when the list shown is the cached
\* snapshot
C28_FxStateMatchesDisplay ==
  fxPolls > 0 =>
    /\ fxState = "EMPTY" <=> fxCurrencies = << >>
    /\ fxState = "CACHED" <=>
         (fxCurrencies # << >> /\ fxState \notin {"LIVE", "STALE"}
            /\ fxCurrencies = readFxCache(fxCache))


----------------------------------------------------------------------------
(* C29: the key ALL against the keys of the portfolios *)

\* the value of one field of the holding of a ticker, zero without holding
ShareOf(holdings, ticker, field) ==
  IF \E j \in 1..Len(holdings) : holdings[j].ticker = ticker
  THEN holdings[CHOOSE j \in 1..Len(holdings) : holdings[j].ticker = ticker][field]
  ELSE Num(0)

\* the sum of one field of a ticker over every key but ALL
SumOverPortfolios(ticker, field) ==
  SumAll([i \in 1..Len(assetsByPortfolio) |->
            IF assetsByPortfolio[i].k = ALL THEN Num(0)
            ELSE ShareOf(assetsByPortfolio[i].v, ticker, field)])

\* the portfolios with a position in a ticker
PortfoliosHolding(ticker) ==
  {positions[i].portfolio_id :
     i \in {j \in 1..Len(positions) : ToUpperText(positions[j].ticker) = ticker}}

HoldingsOfAll == Get(assetsByPortfolio, ALL)

\* C29: after a load, every holding under ALL has the quantity and the market
\* value that its ticker's holdings under the portfolios' keys sum to, and its
\* portfolio_ids are the portfolios with a position in the ticker; every
\* ticker held under a portfolio's key is held under ALL; every portfolio id
\* of a position is a key of assetsByPortfolio.
C29_AllIsSumOfPortfolios ==
  pc = "loaded" =>
    /\ \A i \in 1..Len(HoldingsOfAll) :
         With(HoldingsOfAll[i], LAMBDA holding :
           /\ holding.quantity = SumOverPortfolios(holding.ticker, "quantity")
           /\ holding.market_value_eur
                = SumOverPortfolios(holding.ticker, "market_value_eur")
           /\ {holding.portfolio_ids[j] : j \in 1..Len(holding.portfolio_ids)}
                = PortfoliosHolding(holding.ticker)
           /\ \A j, k \in 1..Len(holding.portfolio_ids) :
                holding.portfolio_ids[j] = holding.portfolio_ids[k] => j = k)
    /\ \A i \in 1..Len(assetsByPortfolio) :
         \A j \in 1..Len(assetsByPortfolio[i].v) :
           \E k \in 1..Len(HoldingsOfAll) :
             HoldingsOfAll[k].ticker = assetsByPortfolio[i].v[j].ticker
    /\ \A i \in 1..Len(positions) : Has(assetsByPortfolio, positions[i].portfolio_id)

\* a loaded snapshot where a ticker is held in two portfolios with quantities
\* and market values that are not zero
C29_Witness ==
  /\ pc = "loaded"
  /\ \E i \in 1..Len(HoldingsOfAll) :
       /\ Len(HoldingsOfAll[i].portfolio_ids) = 2
       /\ \A key \in {PortfolioA, PortfolioB} :
            /\ Has(assetsByPortfolio, key)
            /\ ShareOf(Get(assetsByPortfolio, key), HoldingsOfAll[i].ticker,
                       "market_value_eur").n > 0

----------------------------------------------------------------------------
(* Loads of market records whose indicators are stored in part *)

MaxTechnicalRows == 1

\* the four indicators of a record: all stored, all stored as zero, one of
\* them missing, none stored
IndicatorSets ==
  {[macd_line |-> Rat(1, 2), macd_signal |-> Rat(1, 4), rsi_14 |-> Num(65),
    momentum_20 |-> Num(1)],
   [macd_line |-> Num(0), macd_signal |-> Num(0), rsi_14 |-> Num(0),
    momentum_20 |-> Num(0)],
   [macd_line |-> NoNumber, macd_signal |-> Rat(1, 4), rsi_14 |-> Num(65),
    momentum_20 |-> Num(1)],
   [macd_line |-> Rat(1, 2), macd_signal |-> NoNumber, rsi_14 |-> Num(65),
    momentum_20 |-> Num(1)],
   [macd_line |-> Rat(1, 2), macd_signal |-> Rat(1, 4), rsi_14 |-> NoNumber,
    momentum_20 |-> Num(1)],
   [macd_line |-> Rat(1, 2), macd_signal |-> Rat(1, 4), rsi_14 |-> Num(65),
    momentum_20 |-> NoNumber],
   [macd_line |-> NoNumber, macd_signal |-> NoNumber, rsi_14 |-> NoNumber,
    momentum_20 |-> NoNumber]}

\* records of AAPL in market_watch
TechnicalMarketRows ==
  {[MarketRow(AAPL, Apple, Num(180), "USD")
      EXCEPT !.macd_line = stored.macd_line, !.macd_signal = stored.macd_signal,
             !.rsi_14 = stored.rsi_14, !.momentum_20 = stored.momentum_20,
             !.trend_state = state, !.trend_changed = changed] :
     stored \in IndicatorSets,
     state \in {"BULLISH", "BEARISH", "UNKNOWN", NoString},
     changed \in {"true", NoBoolean}}

\* AAPL alone, or AAPL and a ticker that market_watch does not know
TechnicalPositionRows ==
  {<< PositionRow(PortfolioA, AAPL, Num(10), Num(10), Num(150), "USD", NoNumber) >>,
   << PositionRow(PortfolioA, AAPL, Num(10), Num(10), Num(150), "USD", NoNumber),
      PositionRow(PortfolioB, MCPA, Num(5), Num(5), Num(40), "EUR", NoNumber) >>}

InitTechnical ==
  /\ positionRows \in TechnicalPositionRows
  /\ marketRows \in SeqsUpTo(TechnicalMarketRows, MaxTechnicalRows)
  /\ currencies = CurrencyRows
  /\ portfolioRows = PortfolioRows
  /\ pc = "idle"
  /\ positions = << >>
  /\ portfolioNameById = << >>
  /\ rates = << >>
  /\ marketByTicker = << >>
  /\ portfolioOptions = << >>
  /\ assetsByPortfolio = << >>
  /\ ViewsIdle

SpecTechnical == InitTechnical /\ [][Next]_vars

----------------------------------------------------------------------------
(* C30: the trend state of a holding against the stored indicators *)

\* the rows of market_watch whose ticker is the holding's
MatchingRows(ticker) ==
  {i \in 1..Len(marketRows) : ToUpperText(readText(marketRows[i].ticker)) = ticker}

\* the record the holding is built from: a later row replaces an earlier one
StoredRecord(ticker) ==
  marketRows[CHOOSE i \in MatchingRows(ticker) : \A j \in MatchingRows(ticker) : j <= i]

IndicatorMissing(row) ==
  \/ IsNull(row.macd_line)
  \/ IsNull(row.macd_signal)
  \/ IsNull(row.rsi_14)
  \/ IsNull(row.momentum_20)

\* every holding of every key
AllHoldings ==
  UNION {{assetsByPortfolio[i].v[j] : j \in 1..Len(assetsByPortfolio[i].v)} :
           i \in 1..Len(assetsByPortfolio)}

\* C30: after a load, the trend state of a holding is UNKNOWN exactly when no
\* row of market_watch has its ticker or the matching row stores null for the
\* MACD line, the MACD signal, the RSI or the momentum; trend_changed is
\* false on every holding whose trend state is UNKNOWN.
C30_UnknownTrend ==
  pc = "loaded" =>
    \A holding \in AllHoldings :
      /\ holding.technical.trend_state = "UNKNOWN"
           <=> \/ MatchingRows(holding.ticker) = {}
               \/ IndicatorMissing(StoredRecord(holding.ticker))
      /\ holding.technical.trend_state = "UNKNOWN"
           => holding.technical.trend_changed = FALSE

\* a loaded holding whose record stores BULLISH and trend_changed true but
\* lacks one indicator, next to a holding without record
C30_Witness ==
  /\ pc = "loaded"
  /\ \E holding \in AllHoldings :
       /\ MatchingRows(holding.ticker) # {}
       /\ StoredRecord(holding.ticker).trend_state = "BULLISH"
       /\ StoredRecord(holding.ticker).trend_changed = "true"
       /\ IsNull(StoredRecord(holding.ticker).rsi_14)
       /\ ~IsNull(StoredRecord(holding.ticker).macd_line)
       /\ holding.technical.trend_state = "UNKNOWN"
  /\ \E holding \in AllHoldings : MatchingRows(holding.ticker) = {}

====
